---- MODULE Spec2Model ----
(***************************************************************************)
(* A model of stack-guru/flux.                                             *)
(*                                                                         *)
(* Part 1: the existential-variable context registry                       *)
(*         (flux-middle/src/ty/evars.rs): EvarCtxt::new, EvarCtxt::fresh   *)
(*         and Drop for EvarCtxt, run by several threads over one heap,    *)
(*         one process-wide STORE and one RwLock per context.              *)
(* Part 2: the solver protocol adapter (flux-fixpoint/src/lib.rs):         *)
(*         one invocation of Task::check, with the subprocess and the      *)
(*         outcome of every I/O operation chosen by the environment.       *)
(* Part 3: the serialization of a task (impl Display for Task,             *)
(*         flux-fixpoint/src/lib.rs), as the sequence of pieces written.   *)
(* Part 4: the traversals of terms (flux-middle/src/ty/fold.rs, with the   *)
(*         paths of flux-middle/src/rty/expr.rs): the default fold, fvars, *)
(*         replace_holes, with_holes and replace_generic_types.            *)
(* Part 5: the helpers of expressions (flux-middle/src/rty/expr.rs):       *)
(*         to_path, to_loc, to_var, to_name, simplify, and the round trip  *)
(*         of a path through its expression.                               *)
(* Part 6: the interning of expressions (ExprKind::intern and the smart    *)
(*         constructors of rty/expr.rs over the process-wide table).       *)
(* Part 7: the qualifiers of a function signature                          *)
(*         (liquid-rust-typeck/src/extract_qualifiers.rs).                 *)
(* Part 8: the collector of annotations                                    *)
(*         (liquid-rust-driver/src/collector.rs).                          *)
(* Part 9: the program builder (liquid-rust-mir/src/program.rs).           *)
(* Part 10: the mutable visitor of function types                          *)
(*         (src/syntax/mut_visit.rs).                                      *)
(***************************************************************************)
EXTENDS Integers, Sequences, FiniteSets, TLC

\* ------------------------------------------------------------- bounds
\* Number of contexts created in one run.
MaxCtxts == 2
\* Longest list of minted evars of one context.
MaxEvars == 2
\* Longest serialized task, in units of text.
MaxTaskLen == 3
\* Capacity of the BufWriter's buffer, in units of text.
BufCap == 2
\* Longest list of qualifiers, constants, uifs or kvars of a task.
MaxDecls == 2
\* Longest list of field projections of a path.
MaxProj == 2
\* Deepest nesting of types inside types.
MaxTyDepth == 1
\* Deepest nesting of the expressions handed to the helpers of expressions.
MaxExprDepth == 2
\* Number of expressions the interning table comes to hold in one run.
MaxInterned == 3
\* Longest list of ambient parameters handed to qualifiers_from_fn_sig.
MaxParams == 2
\* Longest list of attributes on one function or loop.
MaxAttrs == 2
\* Largest number of function slots of a ProgramBuilder.
MaxFuncs == 2
\* Deepest predicate of a function type walked by a MutVisitor.
MaxPredDepth == 2

\* -------------------------------------------------------------- sets
Threads == {"t1", "t2"}
NoThread == "none"
\* The addresses the allocator hands out (allocations are 16-aligned): two, so
\* that two contexts can be alive at once and a freed address can be reused.
Addrs == {16, 32}
Ctxts == 1..MaxCtxts
Sorts == {"int", "bool"}
\* The scopes handed to EvarCtxt::new: sequences of (Name, Sort) pairs.
ScopeInputs == { <<>>, << <<"x", "int">> >> }

VARIABLES
    heap,       \* Addrs -> the allocation Arc<RwLock<EvarCtxtData>> at that address
    strong,     \* Addrs -> Arc strong count of the allocation
    map,        \* STORE.map: CtxtId -> address held by the map's Arc
    storeLock,  \* holder of the DashMap shard lock
    rwlock,     \* Addrs -> holder of the write lock of the RwLock
    ctxts,      \* Ctxts -> the EvarCtxt handle of the n-th created context
    nctx,       \* number of contexts created so far
    pc,         \* Threads -> position of the thread
    cur,        \* Threads -> the context the thread's call is about
    arg,        \* Threads -> the sort argument of the thread's fresh call
    ret,        \* Ctxts -> the EVars that fresh returned on that context
    cpc,        \* position of the invocation of Task::check
    taskLen,    \* length of the serialized task "{self}\n", in units
    buf,        \* the units held in the BufWriter's buffer
    pipe,       \* the units delivered to the subprocess's input stream
    stdinOpen,  \* the adapter's end of the input stream is open
    child,      \* the subprocess: "none", "running" or "exited"
    out,        \* what the subprocess has written to its standard output
    result,     \* what check returned
    ioErr,      \* the I/O operations that have failed
    trace,      \* the protocol states the invocation has gone through
    task,       \* the Task handed to Display::fmt
    text,       \* the pieces that Display::fmt has written for it
    fpc,        \* position of the formatting: "parked", "start" or "done"
    term,       \* the term handed to a traversal of ty/fold.rs or to a helper
    op,         \* the operation that has run on it ("start": none yet)
    tys,        \* the types handed to replace_generic_types
    res,        \* what the operation returned
    calls,      \* the sort lists mk_pred was called with, in order
    names,      \* the set fvars returned
    itab,       \* the interning table: the (node, handle) allocations made
    once,       \* the OnceLock cells of Expr::tt, zero and one (0: not set)
    iret,       \* the last smart constructor call and the handle it returned
    qin,        \* the signature and parameters given to qualifiers_from_fn_sig
    quals,      \* the qualifiers it returned
    coll,       \* the SpecCollector, the attributes it visited and its result
    pb,         \* the ProgramBuilder, the add_func calls made and build's result
    walk        \* the function type walked and the hooks invoked, in order

evarVars == <<heap, strong, map, storeLock, rwlock, ctxts, nctx, pc, cur, arg, ret>>

checkVars == <<cpc, taskLen, buf, pipe, stdinOpen, child, out, result, ioErr, trace>>

fmtVars == <<task, text, fpc>>

foldVars == <<term, op, tys, res, calls, names>>

auxVars == <<itab, once, iret, qin, quals, coll, pb, walk>>

vars == <<evarVars, checkVars, fmtVars, foldVars, auxVars>>

\* ------------------------------------------------------ data structures
\* An address the allocator has not handed out (or that was freed).
FreeCell == [alloc |-> FALSE, scope |-> {}, evars |-> <<>>]

\* scope.into_iter().collect() into an FxHashMap: a later pair of the same name
\* replaces an earlier one.
CollectScope(items) ==
    { items[j] : j \in { i \in 1..Len(items) :
                           \A k \in (i+1)..Len(items) : items[k][1] # items[i][1] } }

\* EvarCtxtData { evars: IndexVec::new(), scope }
EvarCtxtData(scope) == [alloc |-> TRUE, scope |-> CollectScope(scope), evars |-> <<>>]

\* A lossy id: only the low four bits of the address.
from_arc_low(a) == a % 16

\* CtxtId(Arc::as_ptr(arc) as u64): the address itself.
from_arc(a) == a

\* An insert that stores nothing.
MapInsertNone(m, k, v) == m

\* DashMap::insert: the entry of k is set to v (an older entry is replaced).
MapInsert(m, k, v) == [x \in DOMAIN m \cup {k} |-> IF x = k THEN v ELSE m[x]]

\* DashMap::remove
MapRemove(m, k) == [x \in DOMAIN m \ {k} |-> m[x]]

\* A push that reports the index after the new element.
IndexVecPushAfter(v, s) == [vec |-> Append(v, s), idx |-> Len(v) + 1]

\* IndexVec::push: appends and returns the index of the new element.
IndexVecPush(v, s) == [vec |-> Append(v, s), idx |-> Len(v)]

\* EVar { cx, id }
EVar(cx, id) == [cx |-> cx, id |-> id]

\* Dropping one Arc of the allocation at a: the count goes down, and the
\* allocation is freed with the last one.
ArcDropStrong(st, a) == [st EXCEPT ![a] = @ - 1]
ArcDropHeap(hp, st, a) == IF st[a] = 1 THEN [hp EXCEPT ![a] = FreeCell] ELSE hp

NoHandle == [state |-> "none", arc |-> 0]

\* A shared borrow of the handle of c is alive: a thread is inside fresh(&self).
NeverBorrowed(c) == FALSE

Borrowed(c) == \E u \in Threads : pc[u] \in {"fresh_lock", "fresh_push"} /\ cur[u] = c

\* A fresh that also needs the registry lock.
FreshCanLockGlobal(t) ==
    rwlock[ctxts[cur[t]].arc] = NoThread /\ storeLock = NoThread

\* self.arc.write(): the write lock of this context's RwLock is free.
FreshCanLock(t) == rwlock[ctxts[cur[t]].arc] = NoThread

\* ------------------------------------------- solver output and parsing
\* The literal tags of the result contract, and one that is none of them.
ResultTags == {"Safe", "Unsafe", "Crash", "Other"}

\* The strings a failure's tag comes as: "42" and "7" parse with the tag type's
\* parser (FromStr), "x" does not.
TagStrings == {"42", "7", "x"}
TagParses(str) == str \in {"42", "7"}
ParseTag(str) == IF str = "42" THEN 42 ELSE 7

\* The [id, tag-string] pairs of an Unsafe output, and the lists of them. str is
\* the text that the JSON string denotes; esc tells that the JSON string is
\* written with an escape sequence (as in "\u0034\u0032" for 42).
ErrEntries ==
    { [id |-> 1, str |-> "42", esc |-> FALSE], [id |-> 2, str |-> "x", esc |-> FALSE],
      [id |-> 2, str |-> "7", esc |-> FALSE], [id |-> 1, str |-> "42", esc |-> TRUE] }
ErrLists == { <<>> } \cup { <<e>> : e \in ErrEntries }
                     \cup { <<e, f>> : e \in ErrEntries, f \in ErrEntries }

\* What the "contents" field holds:
\*   stats_object  {"numCstr": .., "numIter": .., "numChck": .., "numVald": ..}
\*   stats_array   [1, 2, 3, 4]
\*   stats_errors  [<stats>, [[id, "tag"], ..]]
\*   other_array   any other array
\*   scalar        not an array and not an object
ContentShapes == {"stats_object", "stats_array", "stats_errors", "other_array", "scalar"}

\* The captured standard output: nothing, text that is no JSON record with the
\* fields "tag" and "contents", or such a record.
NoOutput == [json |-> "empty", tag |-> "Other", contents |-> "scalar", errors |-> <<>>]
Outputs ==
    { NoOutput, [json |-> "malformed", tag |-> "Other", contents |-> "scalar", errors |-> <<>>] }
    \cup { [json |-> "record", tag |-> tg, contents |-> sh, errors |-> <<>>] :
             tg \in ResultTags, sh \in ContentShapes \ {"stats_errors"} }
    \cup { [json |-> "record", tag |-> tg, contents |-> "stats_errors", errors |-> es] :
             tg \in ResultTags, es \in ErrLists }

\* #[derive(Deserialize)] struct Stats: from an object with the four fields, or
\* from a sequence of four integers.
IsStats(sh) == sh \in {"stats_object", "stats_array"}
\* CrashInfo(Vec<serde_json::Value>): from any array.
IsValueArray(sh) == sh \in {"stats_array", "stats_errors", "other_array"}

\* impl Deserialize for Error<Tag>: the pair (i32, &str), the string parsed by
\* Tag::from_str; a string that does not parse is an invalid value. The field
\* is a borrowed &'a str: serde_json can lend the string out of the input only
\* when it is written without escape sequences, and fails otherwise.
ErrorOk(e) == ~e.esc /\ TagParses(e.str)
DeserializeError(e) == [id |-> e.id, tag |-> ParseTag(e.str)]

FailureOf(why) == [kind |-> "Err", verdict |-> why, errors |-> <<>>]
VerdictOf(tag, errs) == [kind |-> "Ok", verdict |-> tag, errors |-> errs]
NoResult == [kind |-> "none", verdict |-> "none", errors |-> <<>>]

\* A parser that takes every record it cannot read as Safe.
FromSliceLenient(o) ==
    IF o.json # "record" THEN FailureOf("parse")
    ELSE IF o.tag = "Unsafe" /\ o.contents = "stats_errors"
              /\ \A i \in 1..Len(o.errors) : ErrorOk(o.errors[i])
         THEN VerdictOf("Unsafe", [i \in 1..Len(o.errors) |-> DeserializeError(o.errors[i])])
    ELSE IF o.tag = "Crash" /\ IsValueArray(o.contents) THEN VerdictOf("Crash", <<>>)
    ELSE VerdictOf("Safe", <<>>)

\* serde_json::from_slice::<FixpointResult<Tag>>(&out.stdout), the enum being
\* #[serde(tag = "tag", content = "contents")].
FromSlice(o) ==
    IF o.json # "record" THEN FailureOf("parse")
    ELSE IF o.tag = "Safe" THEN
        IF IsStats(o.contents) THEN VerdictOf("Safe", <<>>) ELSE FailureOf("parse")
    ELSE IF o.tag = "Unsafe" THEN
        IF o.contents = "stats_errors" /\ \A i \in 1..Len(o.errors) : ErrorOk(o.errors[i])
        THEN VerdictOf("Unsafe", [i \in 1..Len(o.errors) |-> DeserializeError(o.errors[i])])
        ELSE FailureOf("parse")
    ELSE IF o.tag = "Crash" THEN
        IF IsValueArray(o.contents) THEN VerdictOf("Crash", <<>>) ELSE FailureOf("parse")
    ELSE FailureOf("parse")

\* The serialized task as the units that writeln!(w, "{self}") hands to w.
TaskText(n) == [i \in 1..n |-> i]

\* ------------------------------------------------- impl Display for Task
\* The text is a sequence of pieces <<kind, name>>: one piece per rendered
\* item, and one piece NL per line break written.
NL == <<"nl", "">>

\* The sequences over S of length at most n.
SeqsUpTo(S, n) == UNION { [1..k -> S] : k \in 0..n }

\* The qualifiers every task is given (constraint.rs): their names.
DEFAULT_QUALIFIERS == <<"EqZero", "GtZero">>

\* The tasks: lists of user qualifiers (one name is that of a default
\* qualifier), of constants, of uninterpreted functions and of k-variables.
Tasks ==
    [ qualifiers : SeqsUpTo({"EqZero", "MyQ"}, MaxDecls),
      constants  : SeqsUpTo({"c1", "c2"}, MaxDecls),
      uifs       : SeqsUpTo({"f", "g"}, MaxDecls),
      kvars      : SeqsUpTo({"k0", "k1"}, MaxDecls) ]

EmptyTask == [qualifiers |-> <<>>, constants |-> <<>>, uifs |-> <<>>, kvars |-> <<>>]

\* writeln!(f, "{item}") for every item of a list: the item, then a line break.
RECURSIVE WritelnEach(_, _)
WritelnEach(kind, items) ==
    IF items = <<>> THEN <<>>
    ELSE << <<kind, Head(items)>>, NL >> \o WritelnEach(kind, Tail(items))

\* write!(f, "{item}") for every item of a list: the item and no line break.
RECURSIVE WriteEach(_, _)
WriteEach(kind, items) ==
    IF items = <<>> THEN <<>>
    ELSE << <<kind, Head(items)>> >> \o WriteEach(kind, Tail(items))

\* A task whose user qualifiers stand in for the default ones.
QualifierLinesOverride(t) ==
    IF t.qualifiers = <<>> THEN WritelnEach("qualif", DEFAULT_QUALIFIERS)
    ELSE WritelnEach("qualif", t.qualifiers)

\* The two loops over DEFAULT_QUALIFIERS and over self.qualifiers.
QualifierLines(t) ==
    WritelnEach("qualif", DEFAULT_QUALIFIERS) \o WritelnEach("qualif", t.qualifiers)

\* The two fixed datatype declarations.
DataLines == << <<"data", "Pair">>, NL, <<"data", "Unit">>, NL >>

\* The loop over self.constants: write!, not writeln!.
ConstantLines(t) == WriteEach("constant", t.constants)

\* The loop over self.uifs (Display for UifDef) and over self.kvars (Display
\* for KVar).
UifLines(t) == WritelnEach("uif", t.uifs)
KVarLines(t) == WritelnEach("var", t.kvars)

\* writeln!(f); write!(f, "(constraint"); the padded "\n{constraint}";
\* writeln!(f, "\n)").
ConstraintBlock ==
    << NL, <<"constraint", "open">>, NL, <<"body", "c">>, NL, <<"close", "">>, NL >>

\* A serialization that writes the k-variables before the constants.
TaskFmtVarsFirst(t) ==
    QualifierLines(t) \o DataLines \o KVarLines(t) \o ConstantLines(t) \o UifLines(t)
        \o ConstraintBlock

\* Display::fmt for Task.
TaskFmt(t) ==
    QualifierLines(t) \o DataLines \o ConstantLines(t) \o UifLines(t) \o KVarLines(t)
        \o ConstraintBlock

\* ------------------------------------------ terms (ty/, rty/expr.rs)
\* A term is a tuple whose first element names its variant:
\*   expressions  <<"FreeVar", name>>  <<"BoundVar", debruijn, index>>
\*                <<"Local", l>>  <<"Constant", c>>  <<"BinaryOp", op, e1, e2>>
\*                <<"UnaryOp", op, e>>  <<"TupleProj", e, n>>  <<"Tuple", es>>
\*                <<"PathProj", e, field>>
\*   paths        <<"Path", loc, projection>> with loc <<"Free", name>>,
\*                <<"Loc", l>> or <<"Bound", debruijn, index>>
\*   types        <<"Indexed", bty, indices>>  <<"Exists", bty, binders>>
\*                <<"TyTuple", tys>>  <<"Ptr", path>>  <<"BoxPtr", name, ty>>
\*                <<"Ref", rk, ty>>  <<"Constr", pred, ty>>  <<"Param", i>>
\*                <<"Never">>  <<"Uninit">>
\*   indices      <<"Index", e, is_binder>>
\*   base types   <<"Int">>  <<"Bool">>  <<"Adt", adt_def, substs>>
\*   predicates   <<"Kvar", kvar>>  <<"Expr", e>>  <<"Hole">>
\*   k-variables  <<"KVar", kvid, args, scope>>
\*   binders      <<"Binders", params, value>>
\*   constraints  <<"Type", path, ty>>  <<"Pred", e>>
\*   signatures   <<"FnSig", requires, args, ensures, ret>>
Names == {"x", "y"}
Fields == {0, 1}

Rev(s) == [i \in 1..Len(s) |-> s[Len(s) + 1 - i]]

\* Loc::to_expr
LocToExpr(loc) ==
    CASE loc[1] = "Free" -> <<"FreeVar", loc[2]>>
      [] loc[1] = "Loc" -> <<"Local", loc[2]>>
      [] loc[1] = "Bound" -> <<"BoundVar", loc[2], loc[3]>>

\* Expr::to_loc, for the expressions that are locations.
ExprToLoc(e) ==
    CASE e[1] = "FreeVar" -> <<"Free", e[2]>>
      [] e[1] = "Local" -> <<"Loc", e[2]>>
      [] e[1] = "BoundVar" -> <<"Bound", e[2], e[3]>>
      [] OTHER -> <<"None">>

\* The fold of Path::to_expr: the fields, taken in the order given, are
\* wrapped around the expression one after the other.
RECURSIVE WrapProj(_, _)
WrapProj(e, fields) ==
    IF fields = <<>> THEN e
    ELSE WrapProj(<<"PathProj", e, Head(fields)>>, Tail(fields))

\* Path::to_expr: projection.iter().rev().fold(loc.to_expr(), path_proj).
PathToExpr(p) == WrapProj(LocToExpr(p[2]), Rev(p[3]))

\* The loop of Expr::to_path: the fields pushed, outermost projection first,
\* and the expression the loop stops at.
RECURSIVE PushedFields(_)
PushedFields(e) ==
    IF e[1] = "PathProj" THEN <<e[3]>> \o PushedFields(e[2]) ELSE <<>>

\* The expression itself, whatever it is.
PathRootShallow(e) == e

RECURSIVE PathRoot(_)
PathRoot(e) == IF e[1] = "PathProj" THEN PathRoot(e[2]) ELSE e

NoPath == <<"None">>

\* Expr::to_path: proj.reverse() after the loop.
ExprToPath(e) ==
    IF PathRoot(e)[1] \in {"FreeVar", "BoundVar", "Local"}
    THEN <<"Path", ExprToLoc(PathRoot(e)), Rev(PushedFields(e))>>
    ELSE NoPath

\* Expr::to_name
ExprToName(e) == IF e[1] = "FreeVar" THEN e[2] ELSE "none"

\* The declared index sorts of the abstract data types.
AdtSorts(adt_def) == IF adt_def = "Vec" THEN <<"int">> ELSE <<"int", "int">>

\* BaseTy::sorts
SortsOf(bty) ==
    CASE bty[1] = "Int" -> <<"int">>
      [] bty[1] = "Bool" -> <<"bool">>
      [] bty[1] = "Adt" -> AdtSorts(bty[2])

TyHeads ==
    {"Indexed", "Exists", "TyTuple", "Ptr", "BoxPtr", "Ref", "Constr", "Param", "Never", "Uninit"}

\* --------------------------------------------------- ty/fold.rs: visiting
\* The sub-terms that super_visit_with hands to the visitor, in order.
VisitChildren(t) ==
    CASE t[1] = "Indexed" -> <<t[2]>> \o t[3]
      [] t[1] = "Exists" -> <<t[2], t[3]>>
      [] t[1] = "TyTuple" -> t[2]
      [] t[1] = "Ref" -> <<t[3]>>
      [] t[1] = "Ptr" -> <<PathToExpr(t[2])>>
      [] t[1] = "BoxPtr" -> << <<"FreeVar", t[2]>>, t[3] >>
      [] t[1] = "Constr" -> <<t[2], t[3]>>
      [] t[1] = "Index" -> <<t[2]>>
      [] t[1] = "Adt" -> t[3]
      [] t[1] = "Expr" -> <<t[2]>>
      [] t[1] = "Kvar" -> <<t[2]>>
      [] t[1] = "KVar" -> t[3]
      [] t[1] = "Binders" -> <<t[3]>>
      [] t[1] = "Type" -> <<PathToExpr(t[2]), t[3]>>
      [] t[1] = "Pred" -> <<t[2]>>
      [] t[1] = "FnSig" -> t[2] \o t[3] \o t[4] \o <<t[5]>>
      [] t[1] = "BinaryOp" -> <<t[3], t[4]>>
      [] t[1] = "UnaryOp" -> <<t[3]>>
      [] t[1] = "TupleProj" -> <<t[2]>>
      [] t[1] = "Tuple" -> t[2]
      [] t[1] = "PathProj" -> <<t[2]>>
      [] OTHER -> <<>>

\* visit_with under CollectFreeVars: visit_fvar inserts the name; every other
\* term is visited by super_visit_with.
RECURSIVE CollectFreeVars(_)
CollectFreeVars(t) ==
    IF t[1] = "FreeVar" THEN {t[2]}
    ELSE UNION { CollectFreeVars(VisitChildren(t)[i]) : i \in 1..Len(VisitChildren(t)) }

\* TypeFoldable::fvars
fvars(t) == CollectFreeVars(t)

\* --------------------------------------------------- ty/fold.rs: folding
\* The folders: the one that overrides no hook, ReplaceHoles, WithHoles and
\* GenericsFolder with its types.
DefaultFolder == [kind |-> "default", tys |-> <<>>]
ReplaceHolesFolder == [kind |-> "ReplaceHoles", tys |-> <<>>]
WithHolesFolder == [kind |-> "WithHoles", tys |-> <<>>]
GenericsFolder(ts) == [kind |-> "GenericsFolder", tys |-> ts]

\* The sub-terms that super_fold_with folds, in the order it folds them.
FoldChildren(t) ==
    CASE t[1] = "Indexed" -> <<t[2]>> \o t[3]
      [] t[1] = "Exists" -> <<t[2], t[3]>>
      [] t[1] = "TyTuple" -> t[2]
      [] t[1] = "Ptr" -> <<PathToExpr(t[2])>>
      [] t[1] = "BoxPtr" -> << <<"FreeVar", t[2]>>, t[3] >>
      [] t[1] = "Ref" -> <<t[3]>>
      [] t[1] = "Constr" -> <<t[2], t[3]>>
      [] t[1] = "Index" -> <<t[2]>>
      [] t[1] = "Adt" -> t[3]
      [] t[1] = "Kvar" -> <<t[2]>>
      [] t[1] = "Expr" -> <<t[2]>>
      [] t[1] = "KVar" -> t[3] \o t[4]
      [] t[1] = "Binders" -> <<t[3]>>
      [] t[1] = "Type" -> <<PathToExpr(t[2]), t[3]>>
      [] t[1] = "Pred" -> <<t[2]>>
      [] t[1] = "FnSig" -> t[2] \o t[3] \o t[4] \o <<t[5]>>
      [] t[1] = "BinaryOp" -> <<t[3], t[4]>>
      [] t[1] = "UnaryOp" -> <<t[3]>>
      [] t[1] = "TupleProj" -> <<t[2]>>
      [] t[1] = "Tuple" -> t[2]
      [] t[1] = "PathProj" -> <<t[2]>>
      [] OTHER -> <<>>

\* The term that super_fold_with builds from the folded sub-terms cs.
Rebuild(t, cs) ==
    CASE t[1] = "Indexed" -> <<"Indexed", cs[1], SubSeq(cs, 2, Len(cs))>>
      [] t[1] = "Exists" -> <<"Exists", cs[1], cs[2]>>
      [] t[1] = "TyTuple" -> <<"TyTuple", cs>>
      [] t[1] = "Ptr" -> <<"Ptr", ExprToPath(cs[1])>>
      [] t[1] = "BoxPtr" -> <<"BoxPtr", ExprToName(cs[1]), cs[2]>>
      [] t[1] = "Ref" -> <<"Ref", t[2], cs[1]>>
      [] t[1] = "Constr" -> <<"Constr", cs[1], cs[2]>>
      [] t[1] = "Index" -> <<"Index", cs[1], t[3]>>
      [] t[1] = "Adt" -> <<"Adt", t[2], cs>>
      [] t[1] = "Kvar" -> <<"Kvar", cs[1]>>
      [] t[1] = "Expr" -> <<"Expr", cs[1]>>
      [] t[1] = "KVar" ->
            <<"KVar", t[2], SubSeq(cs, 1, Len(t[3])), SubSeq(cs, Len(t[3]) + 1, Len(cs))>>
      [] t[1] = "Binders" -> <<"Binders", t[2], cs[1]>>
      [] t[1] = "Type" -> <<"Type", ExprToPath(cs[1]), cs[2]>>
      [] t[1] = "Pred" -> <<"Pred", cs[1]>>
      [] t[1] = "FnSig" ->
            <<"FnSig", SubSeq(cs, 1, Len(t[2])),
              SubSeq(cs, Len(t[2]) + 1, Len(t[2]) + Len(t[3])),
              SubSeq(cs, Len(t[2]) + Len(t[3]) + 1, Len(cs) - 1), cs[Len(cs)]>>
      [] t[1] = "BinaryOp" -> <<"BinaryOp", t[2], cs[1], cs[2]>>
      [] t[1] = "UnaryOp" -> <<"UnaryOp", t[2], cs[1]>>
      [] t[1] = "TupleProj" -> <<"TupleProj", cs[1], t[3]>>
      [] t[1] = "Tuple" -> <<"Tuple", cs>>
      [] t[1] = "PathProj" -> <<"PathProj", cs[1], t[3]>>
      [] OTHER -> t

\* The predicate the caller's mk_pred returns on its n-th call (n counted from
\* 0): a fresh k-variable applied to one bound variable per sort.
mk_pred(n, params) ==
    <<"Binders", params,
      <<"Kvar", <<"KVar", n, [i \in 1..Len(params) |-> <<"BoundVar", 0, i - 1>>], <<>> >> >> >>

\* The sorts of no binder.
NoParams(ty) == <<>>

\* The sorts that ReplaceHoles hands to mk_pred for an existential type.
HoleParams(ty) == ty[3][2]

\* ReplaceHoles::fold_ty applies to an existential type whose predicate is a
\* hole, WithHoles::fold_ty to indexed and existential types, and
\* GenericsFolder::fold_ty to type parameters.
IsHoleExists(t) == t[1] = "Exists" /\ t[3][3] = <<"Hole">>

\* fold_with of a term, with the list of the sorts mk_pred was called with so
\* far: the pair of the folded term and of that list afterwards. Types go
\* through the folder's fold_ty, every other term through super_fold_with.
RECURSIVE FoldWith(_, _, _)
RECURSIVE FoldEach(_, _, _)
RECURSIVE SuperFoldWith(_, _, _)
SuperFoldWith(F, cs, t) ==
    LET r == FoldEach(F, cs, FoldChildren(t))
    IN  <<Rebuild(t, r[1]), r[2]>>

FoldEach(F, cs, ts) ==
    IF ts = <<>> THEN << <<>>, cs >>
    ELSE LET h == FoldWith(F, cs, Head(ts))
             r == FoldEach(F, h[2], Tail(ts))
         IN  << <<h[1]>> \o r[1], r[2] >>

FoldWith(F, cs, t) ==
    IF F.kind = "ReplaceHoles" /\ IsHoleExists(t) THEN
        LET b == SuperFoldWith(F, cs, t[2])
        IN  << <<"Exists", b[1], mk_pred(Len(b[2]), HoleParams(t))>>,
               Append(b[2], HoleParams(t)) >>
    ELSE IF F.kind = "WithHoles" /\ t[1] \in {"Indexed", "Exists"} THEN
        LET b == SuperFoldWith(F, cs, t[2])
        IN  << <<"Exists", b[1], <<"Binders", SortsOf(t[2]), <<"Hole">> >> >>, b[2] >>
    ELSE IF F.kind = "GenericsFolder" /\ t[1] = "Param" THEN
        << F.tys[t[2] + 1], cs >>
    ELSE SuperFoldWith(F, cs, t)

\* --------------------------------------------------- the terms folded
X == <<"FreeVar", "x">>
Y == <<"FreeVar", "y">>
Nu == <<"BoundVar", 0, 0>>
Zero == <<"Constant", 0>>

Exprs ==
    { X, Y, Nu, Zero, <<"Local", 1>>,
      <<"BinaryOp", "Gt", X, Zero>>, <<"BinaryOp", "Gt", Nu, Y>>,
      <<"UnaryOp", "Not", <<"BinaryOp", "Eq", X, Y>> >>,
      <<"TupleProj", <<"Tuple", <<X, Zero>> >>, 0>>,
      <<"PathProj", <<"PathProj", Y, 0>>, 1>> }

Locs == { <<"Free", "x">>, <<"Loc", 1>>, <<"Bound", 0, 0>> }

Paths == { <<"Path", loc, proj>> : loc \in Locs, proj \in SeqsUpTo(Fields, MaxProj) }

KVars ==
    { <<"KVar", 7, <<Nu>>, <<X>> >>, <<"KVar", 7, <<Nu, X>>, <<>> >>,
      <<"KVar", 8, <<X>>, <<X, Y>> >> }

Preds ==
    { <<"Hole">>, <<"Expr", <<"BinaryOp", "Gt", Nu, Zero>> >>,
      <<"Expr", <<"BinaryOp", "Gt", Nu, Y>> >> }
        \cup { <<"Kvar", k>> : k \in KVars }

\* The types without a type inside: the binder of an existential type has the
\* sorts of its base type.
LeafTys ==
    { <<"Indexed", b, << <<"Index", e, FALSE>> >> >> :
          b \in { <<"Int">>, <<"Bool">> }, e \in {X, Zero, Nu} }
        \cup { <<"Exists", b, <<"Binders", SortsOf(b), p>> >> :
                  b \in { <<"Int">>, <<"Bool">> }, p \in Preds }
        \cup { <<"Ptr", p>> : p \in Paths }
        \cup { <<"Param", 0>>, <<"Param", 1>>, <<"Never">>, <<"Uninit">> }

\* The types with one type of S, or two, directly inside.
TysOver(S) ==
    { <<"Ref", "mut", t>> : t \in S }
        \cup { <<"Constr", <<"Expr", <<"BinaryOp", "Gt", X, Zero>> >>, t>> : t \in S }
        \cup { <<"BoxPtr", "y", t>> : t \in S }
        \cup { <<"TyTuple", <<t, <<"Param", 0>> >> >> : t \in S }
        \cup { <<"Indexed", <<"Adt", "Vec", <<t>> >>, << <<"Index", Y, FALSE>> >> >> : t \in S }
        \cup { <<"Exists", <<"Adt", "Vec", <<t>> >>, <<"Binders", <<"int">>, p>> >> :
                  t \in S, p \in { <<"Hole">>, <<"Expr", <<"BinaryOp", "Gt", Nu, Zero>> >> } }
        \cup { <<"Exists", <<"Adt", "Rng", <<t, t>> >>,
                 <<"Binders", <<"int", "int">>, <<"Hole">> >> >> : t \in S }

RECURSIVE TysAt(_)
TysAt(d) == IF d = 0 THEN LeafTys ELSE TysAt(d - 1) \cup TysOver(TysAt(d - 1))

Tys == TysAt(MaxTyDepth)

Constraints ==
    { <<"Type", p, t>> : p \in Paths,
          t \in { <<"Param", 0>>, <<"Indexed", <<"Int">>, << <<"Index", Y, FALSE>> >> >> } }
        \cup { <<"Pred", <<"BinaryOp", "Gt", X, Zero>> >> }

PolyTys ==
    { <<"Binders", <<"int">>, t>> :
          t \in { <<"Param", 0>>, <<"Ref", "mut", <<"Param", 1>> >>,
                  <<"Indexed", <<"Int">>, << <<"Index", Nu, FALSE>> >> >>,
                  <<"TyTuple", << <<"Indexed", <<"Int">>, << <<"Index", Nu, FALSE>> >> >>,
                                 <<"Param", 0>> >> >> } }

FnSigs ==
    { <<"FnSig", <<c>>, <<t, <<"Param", 0>> >>, <<>>, t>> :
          c \in { <<"Pred", <<"BinaryOp", "Gt", X, Zero>> >>,
                  <<"Type", <<"Path", <<"Free", "x">>, <<>> >>, <<"Param", 1>> >> },
          t \in { <<"Exists", <<"Int">>, <<"Binders", <<"int">>, <<"Hole">> >> >>,
                  <<"Indexed", <<"Int">>, << <<"Index", Y, FALSE>> >> >> } }

\* The terms handed to the traversals.
Terms ==
    Exprs \cup Preds \cup KVars \cup Tys \cup Constraints \cup PolyTys \cup FnSigs
        \cup { <<"Int">>, <<"Adt", "Vec", << <<"Param", 0>> >> >> }

\* The lists of types handed to replace_generic_types.
TyArgs ==
    { << <<"Indexed", <<"Int">>, << <<"Index", Zero, FALSE>> >> >>, <<"Never">> >>,
      << <<"Indexed", <<"Int">>, << <<"Index", Nu, FALSE>> >> >>,
         <<"Exists", <<"Bool">>, <<"Binders", <<"bool">>, <<"Hole">> >> >> >> }

\* ------------------------------------------------ rty/expr.rs: helpers
\* Expr::to_var
ExprToVar(e) ==
    CASE e[1] = "FreeVar" -> <<"Free", e[2]>>
      [] e[1] = "BoundVar" -> <<"Bound", e[2], e[3]>>
      [] OTHER -> NoPath

\* A negation that is rebuilt whatever its operand is.
NotKept(a) == <<"UnaryOp", "Not", a>>

\* Simplify::fold_expr on UnaryOp(Not, e): the match on the folded operand a.
NotRule(a) ==
    IF a[1] = "Constant" /\ a[2] \in {"true", "false"} THEN
        <<"Constant", IF a[2] = "true" THEN "false" ELSE "true">>
    ELSE IF a[1] = "UnaryOp" /\ a[2] = "Not" THEN a[3]
    ELSE IF a[1] = "BinaryOp" /\ a[2] = "Eq" THEN <<"BinaryOp", "Ne", a[3], a[4]>>
    ELSE <<"UnaryOp", "Not", a>>

\* Expr::simplify: fold_with under Simplify, whose fold_expr folds the operands
\* of a binary operator or of a negation first and then matches on them; every
\* other expression goes through super_fold_with.
RECURSIVE Simplify(_)
Simplify(e) ==
    IF e[1] = "BinaryOp" THEN
        LET e1 == Simplify(e[3])
            e2 == Simplify(e[4])
        IN  IF e[2] = "And" /\ (e1 = <<"Constant", "false">> \/ e2 = <<"Constant", "false">>)
            THEN <<"Constant", "false">>
            ELSE IF e[2] = "And" /\ e1 = <<"Constant", "true">> THEN e2
            ELSE IF e[2] = "And" /\ e2 = <<"Constant", "true">> THEN e1
            ELSE <<"BinaryOp", e[2], e1, e2>>
    ELSE IF e[1] = "UnaryOp" /\ e[2] = "Not" THEN NotRule(Simplify(e[3]))
    ELSE Rebuild(e, [i \in 1..Len(FoldChildren(e)) |-> Simplify(FoldChildren(e)[i])])

\* The expressions handed to the helpers, by nesting depth: variables, a
\* local, the boolean constants, and around them negations, conjunctions,
\* equalities, tuples and field projections.
RECURSIVE ExprsAt(_)
ExprsAt(d) ==
    IF d = 0 THEN { X, Y, Nu, <<"Local", 1>>, <<"Constant", "true">>, <<"Constant", "false">> }
    ELSE LET S == ExprsAt(d - 1)
             A == { X, <<"Constant", "true">>, <<"Constant", "false">> }
         IN  S \cup { <<"UnaryOp", "Not", e>> : e \in S }
               \cup { <<"BinaryOp", "And", e, a>> : e \in S, a \in A }
               \cup { <<"BinaryOp", "And", a, e>> : e \in S, a \in A }
               \cup { <<"BinaryOp", "Eq", e, Y>> : e \in S }
               \cup { <<"Tuple", <<e>> >> : e \in S }
               \cup { <<"PathProj", e, f>> : e \in S, f \in Fields }

\* ------------------------------------------------ interning (intern.rs)
\* A node holds the handles of its operands. A handle that is new each time.
InternFresh(tab, node) == Cardinality(tab) + 1

\* Interned::new: the handle the table holds for a structurally equal node,
\* or else that of a new allocation.
Intern(tab, node) ==
    IF \E r \in tab : r.node = node THEN (CHOOSE r \in tab : r.node = node).handle
    ELSE Cardinality(tab) + 1

\* --------------------------------------------- extract_qualifiers.rs
\* Here an expression is <<"Bound", index>>, <<"Free", name>>,
\* <<"Constant", c>> or <<"BinaryOp", op, e1, e2>>; a type is
\* <<"Refine", bty>>, <<"Exists", bty, pred>> with pred <<"Infer">> or
\* <<"Expr", e>>, or <<"Other">>; a constraint is <<"Type", ty>> or
\* <<"Pred", e>>. A parameter is <<name, sort>>; names are numbers, and
\* Transformer::new gives the i-th parameter the fresh name i - 1.
\* free_map.get(name): the fresh name inserted last for the name.
FreeMap(params, name) ==
    (CHOOSE i \in 1..Len(params) :
        /\ params[i][1] = name
        /\ \A j \in (i + 1)..Len(params) : params[j][1] # name) - 1

\* Transformer::expr_to_qualifier: the pair of the expression built and of
\* the names inserted into seen.
RECURSIVE expr_to_qualifier(_, _, _)
expr_to_qualifier(params, bound, e) ==
    CASE e[1] = "Bound" -> << <<"Free", bound[Len(bound) - e[2]]>>, {} >>
      [] e[1] = "Free" -> << <<"Free", FreeMap(params, e[2])>>, {FreeMap(params, e[2])} >>
      [] e[1] = "Constant" -> << e, {} >>
      [] e[1] = "BinaryOp" ->
            LET l == expr_to_qualifier(params, bound, e[3])
                r == expr_to_qualifier(params, bound, e[4])
            IN  << <<"BinaryOp", e[2], l[1], r[1]>>, l[2] \cup r[2] >>

\* Every parameter under its fresh name, seen or not.
all_params(params, seen) == [i \in 1..Len(params) |-> <<i - 1, params[i][2]>>]

\* Transformer::relevant_params: the parameters, under their fresh names,
\* whose fresh name is in seen, in the order of the parameters.
relevant_params(params, seen) ==
    LET keep == { i \in 1..Len(params) : (i - 1) \in seen }
        Nth(k) == CHOOSE i \in keep : Cardinality({ j \in keep : j < i }) = k - 1
    IN  [k \in 1..Cardinality(keep) |-> <<Nth(k) - 1, params[Nth(k)][2]>>]

\* Transformer::constr_to_qualifer and ty_to_qualifier on an argument, a
\* return type or a constraint, with gen the next fresh name: the qualifier
\* (q is empty for None) and the next fresh name afterwards.
to_qualifier(params, gen, t) ==
    LET ty == IF t[1] = "Type" THEN t[2] ELSE t
    IN  IF t[1] = "Pred" THEN
            LET x == expr_to_qualifier(params, <<>>, t[2])
            IN  [q |-> <<[args |-> relevant_params(params, x[2]), expr |-> x[1]]>>, gen |-> gen]
        ELSE IF ty[1] = "Exists" THEN
            IF ty[3][1] = "Infer" THEN [q |-> <<>>, gen |-> gen + 1]
            ELSE LET x == expr_to_qualifier(params, <<gen>>, ty[3][2])
                 IN  [q |-> <<[args |-> Append(relevant_params(params, x[2]),
                                              <<gen, IF ty[2] = "Bool" THEN "bool" ELSE "int">>),
                               expr |-> x[1]]>>,
                      gen |-> gen + 1]
        ELSE [q |-> <<>>, gen |-> gen]

\* qualifiers_from_fn_sig over the arguments, the requires, the ensures and
\* the return type in this order (ts), the None results filtered out.
RECURSIVE qualifiers_from(_, _, _)
qualifiers_from(params, gen, ts) ==
    IF ts = <<>> THEN <<>>
    ELSE LET h == to_qualifier(params, gen, Head(ts))
         IN  h.q \o qualifiers_from(params, h.gen, Tail(ts))

qualifiers_from_fn_sig(sig, params) ==
    qualifiers_from(params, Len(params), sig.args \o sig.requires \o sig.ensures \o <<sig.ret>>)

\* The parameter lists handed to qualifiers_from_fn_sig: different names,
\* the third of sort bool.
QParams ==
    { ps \in SeqsUpTo({ <<10, "int">>, <<11, "int">>, <<12, "bool">> }, MaxParams) :
        \A i, j \in 1..Len(ps) : i # j => ps[i] # ps[j] }

\* The signatures over the names ns: one argument, at most one predicate
\* required, at most one type ensured, and a return type; QExprs(bvs) are
\* the predicates over ns and the bound variables bvs.
QSigs(ns) ==
    LET QExprs(bvs) ==
            { <<"BinaryOp", "Gt", a, b>> :
                a \in { <<"Free", n>> : n \in ns } \cup { <<"Bound", i>> : i \in bvs },
                b \in { <<"Free", n>> : n \in ns } \cup { <<"Constant", 0>> } }
    IN
    [ args     : { <<t>> : t \in { <<"Refine", "Int">>, <<"Exists", "Int", <<"Infer">> >> }
                                  \cup { <<"Exists", "Int", <<"Expr", e>> >> : e \in QExprs({0}) } },
      requires : { <<>> } \cup { << <<"Pred", e>> >> : e \in QExprs({}) },
      ensures  : { <<>>, << <<"Type", <<"Exists", "Bool", <<"Expr", <<"Bound", 0>> >> >> >> >> },
      ret      : { <<"Other">>, <<"Exists", "Int", <<"Expr", <<"BinaryOp", "Gt", <<"Bound", 0>>, <<"Constant", 0>> >> >> >> } ]

\* ---------------------------------------------------- collector.rs
\* An attribute is <<path, args>>: args is "ok" for delimited tokens that
\* parse, "bad" for delimited tokens that do not, "empty" for arguments
\* that are not delimited. "inline" stands for an attribute that is not an
\* lr attribute.
Attrs ==
    { <<"lr::ty", "ok">>, <<"lr::ty", "bad">>, <<"lr::ty", "empty">>,
      <<"lr::assume", "empty">>,
      <<"lr::loop_invariant", "ok">>, <<"lr::loop_invariant", "bad">>,
      <<"lr::loop_invariant", "empty">>,
      <<"inline", "empty">> }

\* SpecCollector::parse_annotations from the state st of its locals (fn_sig
\* is Some, assume, an error was emitted, it returned early): the state
\* after the loop over the attributes.
RECURSIVE parse_annotations(_, _)
parse_annotations(attributes, st) ==
    IF attributes = <<>> THEN st
    ELSE LET a == Head(attributes)
             rest == Tail(attributes)
         IN  CASE a[1] = "inline" -> parse_annotations(rest, st)
               [] a[1] = "lr::ty" ->
                    IF st.fn_sig THEN [st EXCEPT !.err = TRUE, !.returned = TRUE]
                    ELSE IF a[2] = "empty" THEN parse_annotations(rest, [st EXCEPT !.err = TRUE])
                    ELSE IF a[2] = "ok" THEN parse_annotations(rest, [st EXCEPT !.fn_sig = TRUE])
                    ELSE parse_annotations(rest, [st EXCEPT !.err = TRUE])
               [] a[1] = "lr::assume" -> parse_annotations(rest, [st EXCEPT !.assume = TRUE])
               [] OTHER -> parse_annotations(rest, [st EXCEPT !.err = TRUE])

\* SpecCollector::parse_loop_annotations: the number of invariants pushed
\* and whether an error was emitted.
RECURSIVE parse_loop_annotations(_, _)
parse_loop_annotations(attributes, st) ==
    IF attributes = <<>> THEN st
    ELSE LET a == Head(attributes)
             rest == Tail(attributes)
         IN  IF a[1] = "lr::loop_invariant" /\ a[2] = "ok"
                 THEN parse_loop_annotations(rest, [st EXCEPT !.invs = @ + 1])
             ELSE IF a[1] = "lr::loop_invariant" /\ a[2] = "bad"
                 THEN parse_loop_annotations(rest, [st EXCEPT !.err = TRUE])
             ELSE parse_loop_annotations(rest, st)

\* ------------------------------------------------------- program.rs
\* The slots of a ProgramBuilder are a sequence indexed by FuncId + 1 of
\* options: <<>> is None and <<f>> is Some(f).
\* An add_func that keeps the function a slot already holds.
add_func_keep(functions, func_id, func) ==
    [functions |-> IF functions[func_id + 1] = <<>>
                   THEN [functions EXCEPT ![func_id + 1] = <<func>>]
                   ELSE functions,
     ret |-> functions[func_id + 1] # <<>>]

\* ProgramBuilder::add_func: the slots afterwards and the value returned.
add_func(functions, func_id, func) ==
    [functions |-> [functions EXCEPT ![func_id + 1] = <<func>>],
     ret |-> functions[func_id + 1] # <<>>]

\* ProgramBuilder::build: Err with the id of the first empty slot, or Ok with
\* the functions of the slots.
build(functions) ==
    LET none == { i \in 1..Len(functions) : functions[i] = <<>> }
    IN  IF none # {}
        THEN <<"Err", (CHOOSE i \in none : \A j \in none : i <= j) - 1>>
        ELSE <<"Ok", [i \in 1..Len(functions) |-> functions[i][1]]>>

\* ------------------------------------------------------ mut_visit.rs
\* An expression of the surface syntax is <<"Name">>, <<"Lit">>, <<"Err">>,
\* <<"Unary", e>> or <<"Binary", e1, e2>>; a Refine is given by its pred and
\* a function type by its inputs and its output. The visitor is one that
\* records every hook invoked on it, with the position of the node (the
\* index of the Refine, then the indices of the children down to the node),
\* and carries on with the default body of the hook.
RECURSIVE visit_expression(_, _)
RECURSIVE walk_expression(_, _)
\* MutVisitor::visit_expression: the hooks invoked, in order.
visit_expression(expr, pos) ==
    << <<"visit_expression", pos>> >> \o walk_expression(expr, pos)

\* walk_expression.
walk_expression(expr, pos) ==
    CASE expr[1] = "Name" -> << <<"visit_name", pos>> >>
      [] expr[1] = "Binary" ->
            visit_expression(expr[2], Append(pos, 1)) \o visit_expression(expr[3], Append(pos, 2))
      [] expr[1] = "Unary" -> walk_expression(expr[2], Append(pos, 1))
      [] OTHER -> <<>>

\* MutVisitor::visit_refine and walk_refine on the Refine at index i.
visit_refine(pred, i) ==
    << <<"visit_refine", <<i>> >> >> \o visit_expression(pred, <<i>>)

\* walk_fn_type: visit_refine on the inputs in order, then walk_refine on the
\* output.
walk_fn_type(inputs, output) ==
    LET RECURSIVE WalkList(_)
        WalkList(i) == IF i > Len(inputs) THEN <<>>
                       ELSE visit_refine(inputs[i], i) \o WalkList(i + 1)
    IN  WalkList(1) \o visit_expression(output, <<Len(inputs) + 1>>)

\* The predicates up to a depth; the right operand of a binary operator is
\* a leaf.
RECURSIVE PredsAt(_)
PredsAt(d) ==
    IF d = 0 THEN { <<"Name">>, <<"Lit">> }
    ELSE PredsAt(d - 1)
            \cup { <<"Unary", e>> : e \in PredsAt(d - 1) }
            \cup { <<"Binary", e, r>> : e \in PredsAt(d - 1), r \in { <<"Name">>, <<"Lit">> } }

\* ------------------------------------------------------------- Init
\* The state of the parts that start in one state: an empty interning table
\* and unset OnceLock cells; no call of qualifiers_from_fn_sig; a new
\* SpecCollector; no ProgramBuilder and no walk yet.
AuxInit ==
    /\ itab = {}
    /\ once = [c \in {"tt", "zero", "one"} |-> 0]
    /\ iret = [node |-> <<"None">>, handle |-> 0, hit |-> FALSE, via |-> "none"]
    /\ qin = [called |-> FALSE, params |-> <<>>,
              sig |-> [args |-> <<>>, requires |-> <<>>, ensures |-> <<>>, ret |-> <<"Other">>]]
    /\ quals = <<>>
    /\ coll = [pc |-> "start", fn_attrs |-> <<>>, loop_attrs |-> <<>>,
               error_reported |-> FALSE, specs |-> {}, loop_invs |-> 0, ret |-> "none"]
    /\ pb = [pc |-> "new", functions |-> <<>>, calls |-> <<>>, result |-> <<"none">>]
    /\ walk = [called |-> FALSE, inputs |-> <<>>, output |-> <<"Lit">>, hooks |-> <<>>]

InitEvars ==
    /\ AuxInit
    /\ heap = [a \in Addrs |-> FreeCell]
    /\ strong = [a \in Addrs |-> 0]
    /\ map = [k \in {} |-> 0]
    /\ storeLock = NoThread
    /\ rwlock = [a \in Addrs |-> NoThread]
    /\ ctxts = [c \in Ctxts |-> NoHandle]
    /\ nctx = 0
    /\ pc = [t \in Threads |-> "idle"]
    /\ cur = [t \in Threads |-> 0]
    /\ arg = [t \in Threads |-> "int"]
    /\ ret = [c \in Ctxts |-> <<>>]

\* No invocation of Task::check.
CheckParked ==
    /\ cpc = "Idle"
    /\ taskLen = 0
    /\ buf = <<>>
    /\ pipe = <<>>
    /\ stdinOpen = FALSE
    /\ child = "none"
    /\ out = NoOutput
    /\ result = NoResult
    /\ ioErr = {}
    /\ trace = <<"Idle">>

\* No task being formatted.
FmtParked ==
    /\ task = EmptyTask
    /\ text = <<>>
    /\ fpc = "parked"

\* No term being traversed.
FoldParked ==
    /\ term = <<"Never">>
    /\ op = "parked"
    /\ tys = <<>>
    /\ res = <<"Never">>
    /\ calls = <<>>
    /\ names = {}

Init == InitEvars /\ CheckParked /\ FmtParked /\ FoldParked

\* ------------------------------------------------- EvarCtxt::new
\* Arc::new(RwLock::new(EvarCtxtData { .. })): the allocator returns any address
\* that is not in use.
NewAlloc(t, a, scope) ==
    /\ pc[t] = "idle"
    /\ nctx < MaxCtxts
    /\ ~heap[a].alloc
    /\ heap' = [heap EXCEPT ![a] = EvarCtxtData(scope)]
    /\ strong' = [strong EXCEPT ![a] = 1]
    /\ nctx' = nctx + 1
    /\ ctxts' = [ctxts EXCEPT ![nctx + 1] = [state |-> "creating", arc |-> a]]
    /\ pc' = [pc EXCEPT ![t] = "new_insert"]
    /\ cur' = [cur EXCEPT ![t] = nctx + 1]
    /\ UNCHANGED <<checkVars, fmtVars, foldVars, auxVars, map, storeLock, rwlock, arg, ret>>

\* The arguments of STORE.map.insert are evaluated (Arc::clone), then insert
\* takes the shard lock.
NewInsertLock(t) ==
    /\ pc[t] = "new_insert"
    /\ storeLock = NoThread
    /\ storeLock' = t
    /\ strong' = [strong EXCEPT ![ctxts[cur[t]].arc] = @ + 1]
    /\ pc' = [pc EXCEPT ![t] = "new_inserting"]
    /\ UNCHANGED <<checkVars, fmtVars, foldVars, auxVars, heap, map, rwlock, ctxts, nctx, cur, arg, ret>>

\* The entry is written, the lock released, a replaced value is dropped and the
\* handle EvarCtxt { arc } is returned.
NewInsertDone(t) ==
    LET a == ctxts[cur[t]].arc
        k == from_arc(a)
        m == MapInsert(map, k, a)
        \* the Arc that insert was given and did not store is dropped
        st1 == IF k \in DOMAIN m /\ m[k] = a THEN strong ELSE ArcDropStrong(strong, a)
        replaced == k \in DOMAIN map /\ k \in DOMAIN m /\ m[k] # map[k]
    IN  /\ pc[t] = "new_inserting"
        /\ map' = m
        /\ storeLock' = NoThread
        /\ strong' = IF replaced THEN ArcDropStrong(st1, map[k]) ELSE st1
        /\ heap' = IF replaced THEN ArcDropHeap(heap, st1, map[k]) ELSE heap
        /\ ctxts' = [ctxts EXCEPT ![cur[t]].state = "live"]
        /\ pc' = [pc EXCEPT ![t] = "idle"]
        /\ cur' = [cur EXCEPT ![t] = 0]
        /\ UNCHANGED <<checkVars, fmtVars, foldVars, auxVars, rwlock, nctx, arg, ret>>

\* ------------------------------------------------- EvarCtxt::fresh
\* fresh(&self, sort) is called on a handle that exists: the call borrows it.
FreshCall(t, c, s) ==
    /\ pc[t] = "idle"
    /\ ctxts[c].state = "live"
    /\ Len(heap[ctxts[c].arc].evars)
         + Cardinality({u \in Threads : pc[u] \in {"fresh_lock", "fresh_push"} /\ cur[u] = c})
         < MaxEvars
    /\ pc' = [pc EXCEPT ![t] = "fresh_lock"]
    /\ cur' = [cur EXCEPT ![t] = c]
    /\ arg' = [arg EXCEPT ![t] = s]
    /\ UNCHANGED <<checkVars, fmtVars, foldVars, auxVars, heap, strong, map, storeLock, rwlock, ctxts, nctx, ret>>

\* let mut data = self.arc.write();
FreshLock(t) ==
    /\ pc[t] = "fresh_lock"
    /\ FreshCanLock(t)
    /\ rwlock' = [rwlock EXCEPT ![ctxts[cur[t]].arc] = t]
    /\ pc' = [pc EXCEPT ![t] = "fresh_push"]
    /\ UNCHANGED <<checkVars, fmtVars, foldVars, auxVars, heap, strong, map, storeLock, ctxts, nctx, cur, arg, ret>>

\* EVar { cx: CtxtId::from_arc(&self.arc), id: data.evars.push(sort.clone()) };
\* the guard is released on return.
FreshPush(t) ==
    LET a == ctxts[cur[t]].arc
        p == IndexVecPush(heap[a].evars, arg[t])
    IN  /\ pc[t] = "fresh_push"
        /\ heap' = [heap EXCEPT ![a].evars = p.vec]
        /\ ret' = [ret EXCEPT ![cur[t]] = Append(@, EVar(from_arc(a), p.idx))]
        /\ rwlock' = [rwlock EXCEPT ![a] = NoThread]
        /\ pc' = [pc EXCEPT ![t] = "idle"]
        /\ cur' = [cur EXCEPT ![t] = 0]
        /\ arg' = [arg EXCEPT ![t] = "int"]
        /\ UNCHANGED <<checkVars, fmtVars, foldVars, auxVars, strong, map, storeLock, ctxts, nctx>>

\* ------------------------------------------------- Drop for EvarCtxt
\* drop(&mut self) runs when the owner lets go of the handle: no borrow of it
\* is alive. It reads Arc::strong_count(&self.arc).
DropCall(t, c) ==
    /\ pc[t] = "idle"
    /\ ctxts[c].state = "live"
    /\ ~Borrowed(c)
    /\ ctxts' = [ctxts EXCEPT ![c].state = "dropping"]
    /\ cur' = [cur EXCEPT ![t] = c]
    /\ pc' = [pc EXCEPT ![t] =
                IF strong[ctxts[c].arc] = 2 THEN "drop_remove" ELSE "drop_arc"]
    /\ UNCHANGED <<checkVars, fmtVars, foldVars, auxVars, heap, strong, map, storeLock, rwlock, nctx, arg, ret>>

\* STORE.map.remove takes the shard lock.
DropRemoveLock(t) ==
    /\ pc[t] = "drop_remove"
    /\ storeLock = NoThread
    /\ storeLock' = t
    /\ pc' = [pc EXCEPT ![t] = "drop_removing"]
    /\ UNCHANGED <<checkVars, fmtVars, foldVars, auxVars, heap, strong, map, rwlock, ctxts, nctx, cur, arg, ret>>

\* The entry is removed, the lock released and the removed value (the map's Arc)
\* dropped.
DropRemoveDone(t) ==
    LET k == from_arc(ctxts[cur[t]].arc)
        had == k \in DOMAIN map
    IN  /\ pc[t] = "drop_removing"
        /\ map' = MapRemove(map, k)
        /\ storeLock' = NoThread
        /\ strong' = IF had THEN ArcDropStrong(strong, map[k]) ELSE strong
        /\ heap' = IF had THEN ArcDropHeap(heap, strong, map[k]) ELSE heap
        /\ pc' = [pc EXCEPT ![t] = "drop_arc"]
        /\ UNCHANGED <<checkVars, fmtVars, foldVars, auxVars, rwlock, ctxts, nctx, cur, arg, ret>>

\* After drop() the field self.arc is dropped.
DropArc(t) ==
    LET a == ctxts[cur[t]].arc
    IN  /\ pc[t] = "drop_arc"
        /\ strong' = ArcDropStrong(strong, a)
        /\ heap' = ArcDropHeap(heap, strong, a)
        /\ ctxts' = [ctxts EXCEPT ![cur[t]].state = "dropped"]
        /\ pc' = [pc EXCEPT ![t] = "idle"]
        /\ cur' = [cur EXCEPT ![t] = 0]
        /\ UNCHANGED <<checkVars, fmtVars, foldVars, auxVars, map, storeLock, rwlock, nctx, arg, ret>>

Next ==
    \/ \E t \in Threads, a \in Addrs, scope \in ScopeInputs : NewAlloc(t, a, scope)
    \/ \E t \in Threads : NewInsertLock(t)
    \/ \E t \in Threads : NewInsertDone(t)
    \/ \E t \in Threads, c \in Ctxts, s \in Sorts : FreshCall(t, c, s)
    \/ \E t \in Threads : FreshLock(t)
    \/ \E t \in Threads : FreshPush(t)
    \/ \E t \in Threads, c \in Ctxts : DropCall(t, c)
    \/ \E t \in Threads : DropRemoveLock(t)
    \/ \E t \in Threads : DropRemoveDone(t)
    \/ \E t \in Threads : DropArc(t)

Spec == Init /\ [][Next]_vars

\* ------------------------------------------------- Task::check
\* Units handed to the writer so far.
Sent == Len(pipe) + Len(buf)

\* Err(e) is returned by `?`: the locals are dropped, which closes the input stream.
ReturnErr(why) ==
    /\ cpc' = "Failed"
    /\ result' = FailureOf(why)
    /\ trace' = Append(trace, "Failed")

InitCheck ==
    /\ cpc = "Idle"
    /\ taskLen \in 1..MaxTaskLen
    /\ buf = <<>>
    /\ pipe = <<>>
    /\ stdinOpen = FALSE
    /\ child = "none"
    /\ out = NoOutput
    /\ result = NoResult
    /\ ioErr = {}
    /\ trace = <<"Idle">>

CheckInit == InitEvars /\ InitCheck /\ FmtParked /\ FoldParked

\* Command::new("fixpoint") .. .spawn() succeeds: the subprocess runs, its
\* input and output are pipes.
SpawnOk ==
    /\ cpc = "Idle"
    /\ cpc' = "Running"
    /\ child' = "running"
    /\ stdinOpen' = TRUE
    /\ trace' = Append(trace, "Running")
    /\ UNCHANGED <<evarVars, fmtVars, foldVars, auxVars, taskLen, buf, pipe, out, result, ioErr>>

\* .spawn() returns an error: .unwrap() panics.
SpawnFail ==
    /\ cpc = "Idle"
    /\ cpc' = "Panicked"
    /\ ioErr' = ioErr \cup {"spawn"}
    /\ trace' = Append(trace, "Panicked")
    /\ UNCHANGED <<evarVars, fmtVars, foldVars, auxVars, taskLen, buf, pipe, stdinOpen, child, out, result>>

\* let mut w = BufWriter::new(stdin.unwrap()); writeln!(w, "{self}") begins.
BeginWrite ==
    /\ cpc = "Running"
    /\ cpc' = "Serializing"
    /\ trace' = Append(trace, "Serializing")
    /\ UNCHANGED <<evarVars, fmtVars, foldVars, auxVars, taskLen, buf, pipe, stdinOpen, child, out, result, ioErr>>

\* A unit is written to w and fits into the buffer: no I/O.
WriteBuffered ==
    /\ cpc = "Serializing"
    /\ Sent < taskLen
    /\ Len(buf) < BufCap
    /\ buf' = Append(buf, Sent + 1)
    /\ UNCHANGED <<evarVars, fmtVars, foldVars, auxVars, cpc, taskLen, pipe, stdinOpen, child, out, result, ioErr, trace>>

\* A unit is written to w and the buffer is full: the buffer is written to the
\* pipe, which the subprocess still reads, and the unit is buffered.
WriteSpillOk ==
    /\ cpc = "Serializing"
    /\ Sent < taskLen
    /\ Len(buf) = BufCap
    /\ child = "running"
    /\ pipe' = pipe \o buf
    /\ buf' = <<Sent + 1>>
    /\ UNCHANGED <<evarVars, fmtVars, foldVars, auxVars, cpc, taskLen, stdinOpen, child, out, result, ioErr, trace>>

\* The write of the full buffer fails: writeln! returns the error and `?`
\* returns it. Dropping w tries the flush once more (any error ignored) and
\* closes the stream.
WriteSpillFail(retryOk) ==
    /\ cpc = "Serializing"
    /\ Sent < taskLen
    /\ Len(buf) = BufCap
    /\ retryOk => child = "running"
    /\ ioErr' = ioErr \cup {"write"}
    /\ pipe' = IF retryOk THEN pipe \o buf ELSE pipe
    /\ buf' = <<>>
    /\ stdinOpen' = FALSE
    /\ ReturnErr("io")
    /\ UNCHANGED <<evarVars, fmtVars, foldVars, auxVars, taskLen, child, out>>

\* The block ends: w is dropped, which flushes the buffer, and the stream is
\* closed with it.
CloseFlushOk ==
    /\ cpc = "Serializing"
    /\ Sent = taskLen
    /\ Len(buf) > 0 => child = "running"
    /\ pipe' = pipe \o buf
    /\ buf' = <<>>
    /\ stdinOpen' = FALSE
    /\ cpc' = "Awaiting"
    /\ trace' = Append(trace, "Awaiting")
    /\ UNCHANGED <<evarVars, fmtVars, foldVars, auxVars, taskLen, child, out, result, ioErr>>

\* The flush of the drop fails: BufWriter's drop ignores the error, the
\* buffered units are lost and the stream is closed.
CloseFlushFail ==
    /\ cpc = "Serializing"
    /\ Sent = taskLen
    /\ Len(buf) > 0
    /\ ioErr' = ioErr \cup {"flush"}
    /\ buf' = <<>>
    /\ stdinOpen' = FALSE
    /\ cpc' = "Awaiting"
    /\ trace' = Append(trace, "Awaiting")
    /\ UNCHANGED <<evarVars, fmtVars, foldVars, auxVars, taskLen, pipe, child, out, result>>

\* The subprocess exits after its input stream was closed, having written o;
\* the invocation is still under way.
ChildFinish(o) ==
    /\ child = "running"
    /\ ~stdinOpen
    /\ cpc = "Awaiting"
    /\ child' = "exited"
    /\ out' = o
    /\ UNCHANGED <<evarVars, fmtVars, foldVars, auxVars, cpc, taskLen, buf, pipe, stdinOpen, result, ioErr, trace>>

\* The subprocess exits while its input stream is still open, having written o.
ChildCrash(o) ==
    /\ child = "running"
    /\ cpc \in {"Running", "Serializing"}
    /\ child' = "exited"
    /\ out' = o
    /\ UNCHANGED <<evarVars, fmtVars, foldVars, auxVars, cpc, taskLen, buf, pipe, stdinOpen, result, ioErr, trace>>

\* child.wait_with_output() returns once the subprocess has exited.
WaitOk ==
    /\ cpc = "Awaiting"
    /\ child = "exited"
    /\ cpc' = "Parsing"
    /\ UNCHANGED <<evarVars, fmtVars, foldVars, auxVars, taskLen, buf, pipe, stdinOpen, child, out, result, ioErr, trace>>

\* child.wait_with_output() returns an error, which `?` returns.
WaitFail ==
    /\ cpc = "Awaiting"
    /\ ioErr' = ioErr \cup {"wait"}
    /\ ReturnErr("io")
    /\ UNCHANGED <<evarVars, fmtVars, foldVars, auxVars, taskLen, buf, pipe, stdinOpen, child, out>>

\* let result = serde_json::from_slice(&out.stdout)?; Ok(result)
ParseReturn ==
    /\ cpc = "Parsing"
    /\ result' = FromSlice(out)
    /\ cpc' = IF FromSlice(out).kind = "Ok" THEN "Parsed" ELSE "Failed"
    /\ trace' = Append(trace, IF FromSlice(out).kind = "Ok" THEN "Parsed" ELSE "Failed")
    /\ UNCHANGED <<evarVars, fmtVars, foldVars, auxVars, taskLen, buf, pipe, stdinOpen, child, out, ioErr>>

CheckNext ==
    \/ SpawnOk
    \/ SpawnFail
    \/ BeginWrite
    \/ WriteBuffered
    \/ WriteSpillOk
    \/ \E retryOk \in BOOLEAN : WriteSpillFail(retryOk)
    \/ CloseFlushOk
    \/ CloseFlushFail
    \/ \E o \in Outputs : ChildFinish(o)
    \/ \E o \in Outputs : ChildCrash(o)
    \/ WaitOk
    \/ WaitFail
    \/ ParseReturn

CheckSpec == CheckInit /\ [][CheckNext]_vars

\* ------------------------------------------- formatting of one task
\* Any task, not yet formatted.
FmtInit ==
    /\ InitEvars /\ CheckParked /\ FoldParked
    /\ task \in Tasks
    /\ text = <<>>
    /\ fpc = "start"

\* format!("{task}"): the whole of Display::fmt.
DisplayFmt ==
    /\ fpc = "start"
    /\ text' = TaskFmt(task)
    /\ fpc' = "done"
    /\ UNCHANGED <<evarVars, checkVars, foldVars, auxVars, task>>

FmtNext == DisplayFmt

FmtSpec == FmtInit /\ [][FmtNext]_vars

\* ------------------------------------------- one traversal of one term
\* Any term, not yet traversed.
FoldInit ==
    /\ InitEvars /\ CheckParked /\ FmtParked
    /\ term \in Terms
    /\ op = "start"
    /\ tys = <<>>
    /\ res = <<"Never">>
    /\ calls = <<>>
    /\ names = {}

\* term.fold_with(&mut folder) for a folder that overrides no hook.
DefaultFold ==
    /\ op = "start"
    /\ op' = "fold"
    /\ res' = FoldWith(DefaultFolder, <<>>, term)[1]
    /\ UNCHANGED <<evarVars, checkVars, fmtVars, auxVars, term, tys, calls, names>>

\* term.fvars()
Fvars ==
    /\ op = "start"
    /\ op' = "fvars"
    /\ names' = fvars(term)
    /\ UNCHANGED <<evarVars, checkVars, fmtVars, auxVars, term, tys, res, calls>>

\* term.replace_holes(&mut mk_pred)
ReplaceHoles ==
    /\ op = "start"
    /\ op' = "replace_holes"
    /\ res' = FoldWith(ReplaceHolesFolder, <<>>, term)[1]
    /\ calls' = FoldWith(ReplaceHolesFolder, <<>>, term)[2]
    /\ UNCHANGED <<evarVars, checkVars, fmtVars, auxVars, term, tys, names>>

\* term.with_holes()
WithHoles ==
    /\ op = "start"
    /\ op' = "with_holes"
    /\ res' = FoldWith(WithHolesFolder, <<>>, term)[1]
    /\ UNCHANGED <<evarVars, checkVars, fmtVars, auxVars, term, tys, calls, names>>

\* term.replace_generic_types(tys), for a list that has a type for every
\* parameter of the term.
ReplaceGenericTypes ==
    /\ op = "start"
    /\ \E ts \in TyArgs :
          /\ tys' = ts
          /\ res' = FoldWith(GenericsFolder(ts), <<>>, term)[1]
    /\ op' = "replace_generic_types"
    /\ UNCHANGED <<evarVars, checkVars, fmtVars, auxVars, term, calls, names>>

FoldNext == DefaultFold \/ Fvars \/ ReplaceHoles \/ WithHoles \/ ReplaceGenericTypes

FoldSpec == FoldInit /\ [][FoldNext]_vars

\* --------------------------------------- one helper on one expression
\* Any expression, or any path, with no helper run on it yet.
ExprInit ==
    /\ InitEvars /\ CheckParked /\ FmtParked
    /\ term \in ExprsAt(MaxExprDepth) \cup Paths
    /\ op = "start"
    /\ tys = <<>>
    /\ res = <<"Never">>
    /\ calls = <<>>
    /\ names = {}

\* term.to_path()
ToPath ==
    /\ op = "start" /\ term[1] # "Path"
    /\ op' = "to_path"
    /\ res' = ExprToPath(term)
    /\ UNCHANGED <<evarVars, checkVars, fmtVars, auxVars, term, tys, calls, names>>

\* term.to_loc()
ToLoc ==
    /\ op = "start" /\ term[1] # "Path"
    /\ op' = "to_loc"
    /\ res' = ExprToLoc(term)
    /\ UNCHANGED <<evarVars, checkVars, fmtVars, auxVars, term, tys, calls, names>>

\* term.to_var()
ToVar ==
    /\ op = "start" /\ term[1] # "Path"
    /\ op' = "to_var"
    /\ res' = ExprToVar(term)
    /\ UNCHANGED <<evarVars, checkVars, fmtVars, auxVars, term, tys, calls, names>>

\* term.to_name(): the set of the name returned, empty for None.
ToName ==
    /\ op = "start" /\ term[1] # "Path"
    /\ op' = "to_name"
    /\ names' = {ExprToName(term)} \ {"none"}
    /\ UNCHANGED <<evarVars, checkVars, fmtVars, auxVars, term, tys, res, calls>>

\* term.simplify()
SimplifyExpr ==
    /\ op = "start" /\ term[1] # "Path"
    /\ op' = "simplify"
    /\ res' = Simplify(term)
    /\ UNCHANGED <<evarVars, checkVars, fmtVars, auxVars, term, tys, calls, names>>

\* path.to_expr().to_path()
PathRoundTrip ==
    /\ op = "start" /\ term[1] = "Path"
    /\ op' = "round_trip"
    /\ res' = ExprToPath(PathToExpr(term))
    /\ UNCHANGED <<evarVars, checkVars, fmtVars, auxVars, term, tys, calls, names>>

ExprSpec ==
    ExprInit /\ [][ToPath \/ ToLoc \/ ToVar \/ ToName \/ SimplifyExpr \/ PathRoundTrip]_vars

\* ------------------------------------------- interning of expressions
\* A smart constructor (Expr::constant, fvar, unary_op, binary_op) applied to
\* constants, names and handles already built: kind.intern().
Construct ==
    \E node \in { <<"Constant", "true">>, <<"Constant", "0">>, <<"Constant", "1">>, X }
                  \cup { <<"UnaryOp", "Not", r.handle>> : r \in itab }
                  \cup { <<"BinaryOp", "And", r.handle, q.handle>> : r \in itab, q \in itab } :
        LET h == Intern(itab, node)
        IN  /\ Cardinality(itab \cup {[node |-> node, handle |-> h]}) <= MaxInterned
            /\ itab' = itab \cup {[node |-> node, handle |-> h]}
            /\ iret' = [node |-> node, handle |-> h,
                        hit |-> \E r \in itab : r.node = node, via |-> "constructor"]
            /\ UNCHANGED <<evarVars, checkVars, fmtVars, foldVars, once, qin, quals, coll, pb, walk>>

\* Expr::tt(), Expr::zero(), Expr::one(): get_or_init of the cell, the node
\* interned on the first call, and a clone of the handle returned.
OnceGet ==
    \E c \in {"tt", "zero", "one"} :
        LET node == <<"Constant", CASE c = "tt" -> "true" [] c = "zero" -> "0" [] c = "one" -> "1">>
            h == IF once[c] # 0 THEN once[c] ELSE Intern(itab, node)
        IN  /\ Cardinality(itab \cup {[node |-> node, handle |-> h]}) <= MaxInterned
            /\ itab' = itab \cup {[node |-> node, handle |-> h]}
            /\ once' = [once EXCEPT ![c] = h]
            /\ iret' = [node |-> node, handle |-> h,
                        hit |-> \E r \in itab : r.node = node, via |-> c]
            /\ UNCHANGED <<evarVars, checkVars, fmtVars, foldVars, qin, quals, coll, pb, walk>>

InternSpec == Init /\ [][Construct \/ OnceGet]_vars

\* --------------------------------------- qualifiers of one signature
\* qualifiers_from_fn_sig(fn_sig, params), for a signature whose free
\* variables are among the parameters.
ExtractQualifiers ==
    /\ ~qin.called
    /\ \E ps \in QParams : \E sig \in QSigs({ ps[i][1] : i \in 1..Len(ps) }) :
          /\ qin' = [called |-> TRUE, params |-> ps, sig |-> sig]
          /\ quals' = qualifiers_from_fn_sig(sig, ps)
    /\ UNCHANGED <<evarVars, checkVars, fmtVars, foldVars, itab, once, iret, coll, pb, walk>>

QualSpec == Init /\ [][ExtractQualifiers]_vars

\* ------------------------------------------- collecting annotations
\* ItemLikeVisitor::visit_item on a function with the given attributes.
VisitItem ==
    /\ coll.pc = "start"
    /\ \E attributes \in SeqsUpTo(Attrs, MaxAttrs) :
          LET st == parse_annotations(attributes,
                      [fn_sig |-> FALSE, assume |-> FALSE, err |-> FALSE, returned |-> FALSE])
          IN  coll' = [coll EXCEPT
                          !.pc = "item",
                          !.fn_attrs = attributes,
                          !.error_reported = @ \/ st.err,
                          !.specs = IF st.fn_sig /\ ~st.returned
                                    THEN @ \cup {[fn_sig |-> "sig", assume |-> st.assume]}
                                    ELSE @]
    /\ UNCHANGED <<evarVars, checkVars, fmtVars, foldVars, itab, once, iret, qin, quals, pb, walk>>

\* Visitor::visit_expr on a loop of the function's body.
VisitExpr ==
    /\ coll.pc = "item"
    /\ \E attributes \in SeqsUpTo(Attrs, MaxAttrs) :
          LET st == parse_loop_annotations(attributes, [invs |-> 0, err |-> FALSE])
          IN  coll' = [coll EXCEPT
                          !.pc = "loop",
                          !.loop_attrs = attributes,
                          !.error_reported = @ \/ st.err,
                          !.loop_invs = @ + st.invs]
    /\ UNCHANGED <<evarVars, checkVars, fmtVars, foldVars, itab, once, iret, qin, quals, pb, walk>>

\* SpecCollector::collect after visit_all_item_likes.
CollectReturn ==
    /\ coll.pc \in {"start", "item", "loop"}
    /\ coll' = [coll EXCEPT !.pc = "done",
                            !.ret = IF coll.error_reported THEN "Err" ELSE "Ok"]
    /\ UNCHANGED <<evarVars, checkVars, fmtVars, foldVars, itab, once, iret, qin, quals, pb, walk>>

CollectSpec == Init /\ [][VisitItem \/ VisitExpr \/ CollectReturn]_vars

\* ------------------------------------------------ building a program
\* Program::builder(functions_len).
Builder ==
    /\ pb.pc = "new"
    /\ \E functions_len \in 0..MaxFuncs :
          pb' = [pb EXCEPT !.pc = "builder",
                           !.functions = [i \in 1..functions_len |-> <<>>]]
    /\ UNCHANGED <<evarVars, checkVars, fmtVars, foldVars, itab, once, iret, qin, quals, coll, walk>>

\* ProgramBuilder::add_func(func_id, func) with an id below the number of
\* slots; the call and the value it returned are recorded.
AddFunc ==
    /\ pb.pc = "builder"
    /\ Len(pb.calls) <= MaxFuncs
    /\ \E func_id \in 0..(Len(pb.functions) - 1), func \in {"f", "g"} :
          LET r == add_func(pb.functions, func_id, func)
          IN  pb' = [pb EXCEPT !.functions = r.functions,
                               !.calls = Append(@, [id |-> func_id, func |-> func, ret |-> r.ret])]
    /\ UNCHANGED <<evarVars, checkVars, fmtVars, foldVars, itab, once, iret, qin, quals, coll, walk>>

\* ProgramBuilder::build.
Build ==
    /\ pb.pc = "builder"
    /\ pb' = [pb EXCEPT !.pc = "built", !.result = build(pb.functions)]
    /\ UNCHANGED <<evarVars, checkVars, fmtVars, foldVars, itab, once, iret, qin, quals, coll, walk>>

BuilderSpec == Init /\ [][Builder \/ AddFunc \/ Build]_vars

\* ------------------------------------------- walking a function type
\* MutVisitor::visit_fn_type on a function type of at most one input.
VisitFnType ==
    /\ ~walk.called
    /\ \E inputs \in SeqsUpTo(PredsAt(MaxPredDepth), 1), output \in PredsAt(MaxPredDepth) :
          walk' = [called |-> TRUE, inputs |-> inputs, output |-> output,
                   hooks |-> walk_fn_type(inputs, output)]
    /\ UNCHANGED <<evarVars, checkVars, fmtVars, foldVars, itab, once, iret, qin, quals, coll, pb>>

WalkSpec == Init /\ [][VisitFnType]_vars

\* ------------------------------------------------- claims, part 1
Live(c) == ctxts[c].state = "live"

\* The id under which the context c is registered, and what the registry holds
\* for it (a set with at most one address).
IdOf(c) == from_arc(ctxts[c].arc)
Lookup(k) == IF k \in DOMAIN map THEN {map[k]} ELSE {}

\* C1: from the return of EvarCtxt::new until the drop of the handle, the
\* registry maps the context's id to that context's allocation, which is alive.
C1_RegistryHoldsOutstanding ==
    \A c \in Ctxts :
        Live(c) => /\ Lookup(IdOf(c)) = {ctxts[c].arc}
                   /\ heap[ctxts[c].arc].alloc

\* A context is outstanding and registered after another one was created,
\* minted in and dropped.
C1_Witness ==
    \E c, d \in Ctxts :
        /\ c # d /\ Live(c) /\ ctxts[d].state = "dropped"
        /\ Len(ret[d]) > 0
        /\ Lookup(IdOf(c)) = {ctxts[c].arc}

\* C2 (as claimed): once the handle of a context has been dropped, a lookup of
\* its id finds nothing, whatever happens afterwards.
C2_DroppedIdNeverFound ==
    \A c \in Ctxts : ctxts[c].state = "dropped" => Lookup(IdOf(c)) = {}

\* C3: while a drop of a context is removing its registry entry, no fresh on
\* that context is between acquiring and releasing the context's lock (nor
\* waiting for it), and the context's lock is free.
C3_NoRemoveDuringFresh ==
    \A t \in Threads :
        pc[t] \in {"drop_remove", "drop_removing", "drop_arc"} =>
            /\ \A u \in Threads :
                 pc[u] \in {"fresh_lock", "fresh_push"} => cur[u] # cur[t]
            /\ rwlock[ctxts[cur[t]].arc] = NoThread

\* A drop holds the shard lock to remove its entry while a fresh on another
\* context holds that context's lock.
C3_Witness ==
    \E t, u \in Threads :
        /\ pc[t] = "drop_removing" /\ pc[u] = "fresh_push"
        /\ cur[t] # cur[u]

\* What the context c can see of itself: its scope, its minted evars and its
\* registry entry.
CtxView(c) ==
    [scope |-> heap[ctxts[c].arc].scope,
     evars |-> heap[ctxts[c].arc].evars,
     entry |-> Lookup(IdOf(c)),
     state |-> ctxts[c].state]

\* The context that the step of thread t is about.
Acting(t) == IF cur[t] # 0 THEN cur[t] ELSE cur'[t]

\* C4: two contexts outstanding at the same time have different ids, and a step
\* of new, fresh or drop on one context leaves the scope, the minted evars and
\* the registry entry of every other outstanding context unchanged.
C4_NoCrossContamination ==
    [][ /\ \A c, d \in Ctxts :
             (c # d /\ Live(c)' /\ Live(d)') => IdOf(c)' # IdOf(d)'
        /\ \A t \in Threads :
             pc'[t] # pc[t] =>
                \A d \in Ctxts :
                    (d # Acting(t) /\ Live(d)) => CtxView(d)' = CtxView(d)
      ]_vars

\* Two contexts are outstanding at once, one with a minted evar, the other with
\* none.
C4_Witness ==
    \E c, d \in Ctxts :
        /\ c # d /\ Live(c) /\ Live(d)
        /\ Len(heap[ctxts[c].arc].evars) = 1
        /\ Len(heap[ctxts[d].arc].evars) = 0

\* C5: a thread in fresh holds and waits for no lock but the lock of its own
\* context: where that lock is free the thread can take it, whoever holds the
\* registry lock or the lock of another context.
C5_FreshOnlyOwnLock ==
    \A t \in Threads :
        /\ pc[t] = "fresh_lock" =>
              /\ storeLock # t
              /\ \A a \in Addrs : rwlock[a] # t
              /\ rwlock[ctxts[cur[t]].arc] = NoThread => ENABLED FreshLock(t)
        /\ pc[t] = "fresh_push" =>
              /\ storeLock # t
              /\ \A a \in Addrs : rwlock[a] = t <=> a = ctxts[cur[t]].arc

\* A fresh is about to take its context's lock while another thread holds the
\* registry lock.
C5_Witness ==
    \E t, u \in Threads :
        /\ pc[t] = "fresh_lock" /\ rwlock[ctxts[cur[t]].arc] = NoThread
        /\ storeLock = u /\ u # t

\* C6: the list of minted evars is append-only: a step changes the list of an
\* outstanding context only by appending one sort; the evar that fresh returns
\* carries the length of the list before the call; the ids returned on one
\* context are pairwise distinct.
C6_AppendOnly ==
    [][ \A c \in Ctxts :
          LET old == heap[ctxts[c].arc].evars
              new == heap'[ctxts[c].arc].evars
          IN  /\ (Live(c) /\ Live(c)') =>
                    \/ new = old
                    \/ /\ \E s \in Sorts : new = Append(old, s)
                       /\ Len(ret'[c]) = Len(ret[c]) + 1
              /\ ret'[c] # ret[c] =>
                    /\ Len(ret'[c]) = Len(ret[c]) + 1
                    /\ SubSeq(ret'[c], 1, Len(ret[c])) = ret[c]
                    /\ ret'[c][Len(ret'[c])].id = Len(old)
                    /\ Len(new) = Len(old) + 1
              /\ \A i, j \in 1..Len(ret'[c]) :
                    i # j => ret'[c][i].id # ret'[c][j].id
      ]_vars

\* Two calls of fresh have returned on one outstanding context, which holds
\* their two different sorts.
C6_Witness ==
    \E c \in Ctxts :
        /\ Live(c) /\ Len(ret[c]) = 2
        /\ Len(heap[ctxts[c].arc].evars) = 2
        /\ heap[ctxts[c].arc].evars[1] # heap[ctxts[c].arc].evars[2]

\* ------------------------------------------------- claims, part 2
IsPrefix(a, b) == Len(a) <= Len(b) /\ SubSeq(b, 1, Len(a)) = a

\* The order of protocol states that the specification gives.
ClaimedOrder == <<"Idle", "Serializing", "Running", "Awaiting", "Parsed">>

\* C7 (as claimed): an invocation goes through Idle, Serializing, Running,
\* Awaiting-Output, Parsed-Result in that order; it is in Parsed-Result only
\* after the subprocess has exited; an I/O or parse failure ends it in Failed
\* with nothing after it.
C7_ProtocolOrder ==
    /\ \/ IsPrefix(trace, ClaimedOrder)
       \/ /\ Len(trace) >= 2
          /\ trace[Len(trace)] = "Failed"
          /\ IsPrefix(SubSeq(trace, 1, Len(trace) - 1), ClaimedOrder)
    /\ cpc = "Parsed" => child = "exited"
    /\ ioErr # {} => cpc = "Failed"

\* C8 (as claimed): whenever check waits for the subprocess (or is past the
\* wait), the complete serialized task has been delivered to the input stream,
\* nothing is left in the buffer and the stream is closed.
C8_TaskWrittenBeforeWait ==
    cpc \in {"Awaiting", "Parsing", "Parsed"} =>
        /\ pipe = TaskText(taskLen)
        /\ buf = <<>>
        /\ ~stdinOpen

\* C9 (as claimed): an I/O error at spawn, while writing or while waiting makes
\* check return Err: the caller is not aborted and gets no verdict.
C9_IoErrorReturned ==
    ioErr \cap {"spawn", "write", "wait"} # {} =>
        /\ cpc = "Failed"
        /\ result.kind = "Err"

\* An output that names one of the three verdicts and, for Unsafe, whose tag
\* strings all parse.
NamesVerdict(o) ==
    /\ o.json = "record"
    /\ o.tag \in {"Safe", "Unsafe", "Crash"}
    /\ o.tag = "Unsafe" =>
          \A i \in 1..Len(o.errors) : o.errors[i].str \in {"42", "7"}

\* C10: a returned verdict is the one that the tag of the output names; output
\* that is empty, malformed, of another tag or with an unparseable tag string
\* ends in a failure, never in a verdict.
C10_VerdictNamedByTag ==
    /\ result.kind = "Ok" => (NamesVerdict(out) /\ result.verdict = out.tag)
    /\ cpc = "Parsed" <=> result.kind = "Ok"
    /\ cpc = "Failed" <=> result.kind = "Err"
    /\ (cpc \in {"Parsed", "Failed"} /\ ioErr \cap {"write", "wait"} = {}
          /\ ~NamesVerdict(out)) => result = FailureOf("parse")

\* An Unsafe output with a tag string that does not parse has ended in a
\* failure.
C10_Witness ==
    /\ cpc = "Failed"
    /\ out.tag = "Unsafe" /\ out.contents = "stats_errors"
    /\ \E i \in 1..Len(out.errors) : out.errors[i].str = "x"
    /\ result = FailureOf("parse")

\* C11 (as claimed): for an Unsafe output whose tag strings all parse with the
\* tag type's parser, check returns one failure per [id, tag-string] pair, in
\* the same order, with the same id and the tag parsed from the string.
C11_UnsafeFailuresParsed ==
    ( /\ cpc \in {"Parsed", "Failed"}
      /\ ioErr \cap {"write", "wait"} = {}
      /\ out.json = "record" /\ out.tag = "Unsafe" /\ out.contents = "stats_errors"
      /\ \A i \in 1..Len(out.errors) : TagParses(out.errors[i].str) )
    => /\ result.kind = "Ok" /\ result.verdict = "Unsafe"
       /\ Len(result.errors) = Len(out.errors)
       /\ \A i \in 1..Len(out.errors) :
             result.errors[i] = [id |-> out.errors[i].id, tag |-> ParseTag(out.errors[i].str)]

\* ----------------------------------------------- claims on the task text
\* The names of the pieces of one kind, in the order of the text.
RECURSIVE ItemsOf(_, _)
ItemsOf(kind, txt) ==
    IF txt = <<>> THEN <<>>
    ELSE IF Head(txt)[1] = kind THEN <<Head(txt)[2]>> \o ItemsOf(kind, Tail(txt))
    ELSE ItemsOf(kind, Tail(txt))

\* The section a piece belongs to (0 for line breaks and the block's inside).
SectionRank(piece) ==
    CASE piece[1] = "qualif" -> 1
      [] piece[1] = "data" -> 2
      [] piece[1] = "constant" -> 3
      [] piece[1] = "uif" -> 4
      [] piece[1] = "var" -> 5
      [] piece[1] = "constraint" -> 6
      [] OTHER -> 0

\* C12: the formatted text has its sections in the order default qualifiers,
\* user qualifiers, Pair and Unit, constants, uifs, k-variables, one constraint
\* block: no piece of a later section precedes one of an earlier section, and
\* each section lists its items in the order of the task's list.
C12_SectionOrder ==
    fpc = "done" =>
        /\ \A i, j \in 1..Len(text) :
              (i < j /\ SectionRank(text[i]) > 0 /\ SectionRank(text[j]) > 0)
                  => SectionRank(text[i]) <= SectionRank(text[j])
        /\ ItemsOf("qualif", text) = DEFAULT_QUALIFIERS \o task.qualifiers
        /\ ItemsOf("data", text) = <<"Pair", "Unit">>
        /\ ItemsOf("constant", text) = task.constants
        /\ ItemsOf("uif", text) = task.uifs
        /\ ItemsOf("var", text) = task.kvars
        /\ Len(ItemsOf("constraint", text)) = 1

\* A formatted task with two different items in every list.
C12_Witness ==
    /\ fpc = "done"
    /\ task.qualifiers = <<"MyQ", "EqZero">>
    /\ task.constants = <<"c2", "c1">>
    /\ task.uifs = <<"g", "f">>
    /\ task.kvars = <<"k1", "k0">>

\* C13: the formatted text holds every default qualifier, whatever the user
\* qualifiers are; the user qualifiers come after the defaults and take the
\* place of none of them.
C13_DefaultsAlwaysIncluded ==
    fpc = "done" =>
        /\ \A d \in 1..Len(DEFAULT_QUALIFIERS) :
              \E i \in 1..Len(text) : text[i] = <<"qualif", DEFAULT_QUALIFIERS[d]>>
        /\ Len(ItemsOf("qualif", text)) = Len(DEFAULT_QUALIFIERS) + Len(task.qualifiers)
        /\ SubSeq(ItemsOf("qualif", text), 1, Len(DEFAULT_QUALIFIERS)) = DEFAULT_QUALIFIERS

\* A formatted task one of whose user qualifiers has the name of a default.
C13_Witness ==
    /\ fpc = "done"
    /\ \E i \in 1..Len(task.qualifiers) :
          \E d \in 1..Len(DEFAULT_QUALIFIERS) : task.qualifiers[i] = DEFAULT_QUALIFIERS[d]
    /\ Len(ItemsOf("qualif", text)) > Len(DEFAULT_QUALIFIERS)

\* C14 (as claimed): in the formatted text every declaration (qualifier, data,
\* constant, uninterpreted function, var) is followed by a line break before
\* the next piece: no two declarations share a line.
C14_DeclarationEndsItsLine ==
    fpc = "done" =>
        \A i \in 1..Len(text) :
            SectionRank(text[i]) \in 1..5 => (i < Len(text) /\ text[i + 1] = NL)

\* ----------------------------------------------- claims on the traversals
\* The terms directly inside a term, by the shape of the term (a path and its
\* root count as terms).
Parts(t) ==
    CASE t[1] = "Indexed" -> <<t[2]>> \o t[3]
      [] t[1] \in {"Exists", "Constr", "Type"} -> <<t[2], t[3]>>
      [] t[1] \in {"TyTuple", "Tuple"} -> t[2]
      [] t[1] \in {"Ptr", "Index", "Kvar", "Expr", "Pred", "TupleProj", "PathProj", "Path"}
            -> <<t[2]>>
      [] t[1] \in {"BoxPtr", "Ref", "Binders", "UnaryOp"} -> <<t[3]>>
      [] t[1] = "Adt" -> t[3]
      [] t[1] = "KVar" -> t[3] \o t[4]
      [] t[1] = "FnSig" -> t[2] \o t[3] \o t[4] \o <<t[5]>>
      [] t[1] = "BinaryOp" -> <<t[3], t[4]>>
      [] OTHER -> <<>>

\* The term and all the terms inside it, outermost first, left to right.
RECURSIVE SubTerms(_)
RECURSIVE SubTermsOfEach(_)
SubTerms(t) == <<t>> \o SubTermsOfEach(Parts(t))

SubTermsOfEach(ts) ==
    IF ts = <<>> THEN <<>> ELSE SubTerms(Head(ts)) \o SubTermsOfEach(Tail(ts))

\* The free-variable names written in a term.
OccurringNames(t) ==
    { u[2] : u \in { SubTerms(t)[i] : i \in { j \in 1..Len(SubTerms(t)) :
                        SubTerms(t)[j][1] \in {"FreeVar", "Free", "BoxPtr"} } } }

\* The sub-terms of a term whose variant is one of hs, in order.
RECURSIVE Only(_, _)
Only(hs, ts) ==
    IF ts = <<>> THEN <<>>
    ELSE IF Head(ts)[1] \in hs THEN <<Head(ts)>> \o Only(hs, Tail(ts))
    ELSE Only(hs, Tail(ts))

\* C15 (as claimed): the fold by a folder that overrides no hook returns a
\* term equal to its input.
C15_DefaultFoldIdentity == op = "fold" => res = term

\* C16 (as claimed): fvars returns exactly the free-variable names that occur
\* in the term, those in the scopes of k-variables included.
C16_FvarsExact == op = "fvars" => names = OccurringNames(term)

\* A term moved below `amount` more binders: the bound variables that point
\* outside the term are shifted in.
RECURSIVE ShiftedIn(_, _, _)
ShiftedIn(t, amount, cutoff) ==
    IF t[1] = "BoundVar" THEN
        IF t[2] >= cutoff THEN <<"BoundVar", t[2] + amount, t[3]>> ELSE t
    ELSE Rebuild(t, [i \in 1..Len(FoldChildren(t)) |->
                        ShiftedIn(FoldChildren(t)[i], amount,
                                  IF t[1] = "Binders" THEN cutoff + 1 ELSE cutoff)])

\* C17 (as claimed): replace_generic_types on a term under one binder gives
\* what substituting the types shifted in by one binder gives, so that the
\* bound variables of the inserted types refer to the binders they referred to.
C17_BinderShift ==
    (op = "replace_generic_types" /\ term[1] = "Binders") =>
        res = <<"Binders", term[2],
                FoldWith(GenericsFolder([i \in 1..Len(tys) |-> ShiftedIn(tys[i], 1, 0)]),
                         <<>>, term[3])[1]>>

\* C18: replace_holes calls mk_pred once for every existential type of the
\* term whose predicate is a hole, with the sorts of that type's binder; in
\* the result that type carries the predicate returned, a k-variable with one
\* argument per index sort of the base type, every other existential type
\* keeps its predicate, and no existential type with a hole is left.
C18_HolesReplaced ==
    op = "replace_holes" =>
        LET before == Only({"Exists"}, SubTerms(term))
            after == Only({"Exists"}, SubTerms(res))
            holes == { i \in 1..Len(before) : before[i][3][3] = <<"Hole">> }
        IN  /\ Len(after) = Len(before)
            /\ Len(calls) = Cardinality(holes)
            /\ \A i \in holes :
                  /\ Cardinality({ j \in 1..Len(calls) : calls[j] = before[i][3][2] })
                        = Cardinality({ j \in holes : before[j][3][2] = before[i][3][2] })
                  /\ after[i][3][2] = before[i][3][2]
                  /\ after[i][3][3][1] = "Kvar"
                  /\ after[i][3][3][2][2] < Len(calls)
                  /\ Len(after[i][3][3][2][3]) = Len(SortsOf(before[i][2]))
            /\ \A i \in (1..Len(before)) \ holes : after[i][3] = before[i][3]
            /\ \A i \in 1..Len(after) : after[i][3][3] # <<"Hole">>
            /\ \A i, j \in holes : i # j => after[i][3][3][2][2] # after[j][3][3][2][2]

\* replace_holes has run on an existential type with a hole whose type
\* arguments hold another one, of a different arity.
C18_Witness ==
    /\ op = "replace_holes"
    /\ term[1] = "Exists" /\ term[3][3] = <<"Hole">> /\ term[2][1] = "Adt"
    /\ Len(calls) = 3
    /\ \E i, j \in 1..Len(calls) : Len(calls[i]) # Len(calls[j])

\* C19 (as claimed): the result of with_holes on a type has no indexed type,
\* every existential type of it carries a hole under the sorts of its base
\* type, and no index and no predicate other than a hole is left in it.
C19_WithHolesDiscardsAll ==
    (op = "with_holes" /\ term[1] \in TyHeads) =>
        \A i \in 1..Len(SubTerms(res)) :
            LET u == SubTerms(res)[i]
            IN  /\ u[1] \notin {"Indexed", "Index", "Expr", "Kvar"}
                /\ u[1] = "Exists" => u[3] = <<"Binders", SortsOf(u[2]), <<"Hole">> >>

\* C20 (as claimed): replace_generic_types returns a term without type
\* parameters unchanged, and a type parameter replaced by the type given for it.
C20_OnlyParamsChange ==
    op = "replace_generic_types" =>
        /\ Only({"Param"}, SubTerms(term)) = <<>> => res = term
        /\ term[1] = "Param" => res = tys[term[2] + 1]

\* ------------------------------------- claims on the helpers of expressions
\* A chain of field projections around a free variable, a bound variable or a
\* local.
RECURSIVE IsProjChain(_)
IsProjChain(e) ==
    IF e[1] = "PathProj" THEN IsProjChain(e[2]) ELSE e[1] \in {"FreeVar", "BoundVar", "Local"}

\* C21: to_path, to_loc, to_var and to_name return on every expression; they
\* return None on an expression that is not of the shape they look for, and
\* to_path returns a path exactly on the chains of field projections around
\* a free variable, a bound variable or a local.
C21_ProbesAreTotal ==
    /\ op = "to_path" =>
          /\ (res # <<"None">>) <=> IsProjChain(term)
          /\ res # <<"None">> => res[1] = "Path"
    /\ op = "to_loc" => ((res # <<"None">>) <=> term[1] \in {"FreeVar", "BoundVar", "Local"})
    /\ op = "to_var" => ((res # <<"None">>) <=> term[1] \in {"FreeVar", "BoundVar"})
    /\ op = "to_name" => ((names # {}) <=> term[1] = "FreeVar")

\* to_path has returned None for a projection of a conjunction.
C21_Witness ==
    /\ op = "to_path"
    /\ term[1] = "PathProj" /\ term[2][1] = "BinaryOp"
    /\ res = <<"None">>

\* ------------------------------------------------- claims on interning
\* The expression a handle stands for, its operands unfolded.
RECURSIVE Deep(_)
Deep(h) ==
    LET n == (CHOOSE r \in itab : r.handle = h).node
    IN  CASE n[1] = "UnaryOp" -> <<"UnaryOp", n[2], Deep(n[3])>>
          [] n[1] = "BinaryOp" -> <<"BinaryOp", n[2], Deep(n[3]), Deep(n[4])>>
          [] OTHER -> n

\* C22: a smart constructor returns the handle of the table for its node;
\* two handles are equal exactly when the expressions they stand for are
\* structurally equal; the handles of Expr::tt, zero and one are those that
\* Expr::constant returns for the same constants.
C22_InternedIdentity ==
    /\ \A r, q \in itab : (r.handle = q.handle) <=> (Deep(r.handle) = Deep(q.handle))
    /\ \A r, q \in itab : (r.node = q.node) => (r.handle = q.handle)
    /\ iret.handle # 0 => [node |-> iret.node, handle |-> iret.handle] \in itab
    /\ \A r \in itab :
          /\ (r.node = <<"Constant", "true">> /\ once["tt"] # 0) => r.handle = once["tt"]
          /\ (r.node = <<"Constant", "0">> /\ once["zero"] # 0) => r.handle = once["zero"]
          /\ (r.node = <<"Constant", "1">> /\ once["one"] # 0) => r.handle = once["one"]

\* Expr::constant has returned, for true, the handle that Expr::tt() made, with
\* a conjunction built over it in the table.
C22_Witness ==
    /\ iret.via = "constructor" /\ iret.hit
    /\ iret.node = <<"Constant", "true">>
    /\ once["tt"] = iret.handle
    /\ \E r \in itab : r.node[1] = "BinaryOp"

\* C23 (as claimed): a fold whose folder leaves the expression of a path as
\* it is does not abort, and the pointer type or constraint it returns carries
\* the path of its input: the path is never altered silently.
C23_NoSilentPathChange ==
    ( /\ op \in {"fold", "replace_holes", "with_holes", "replace_generic_types"}
      /\ term[1] \in {"Ptr", "Type"} )
    => (res[1] = term[1] /\ res[2] = term[2])

\* C26 (as claimed): p.to_expr().to_path() returns p, with the same root and
\* the same projections in the same order.
C26_PathRoundTrip == op = "round_trip" => res = term

\* C27 (as claimed): an existential variable minted by one context is never
\* equal to one minted by another context, also when the first context was
\* dropped before the second was created.
C27_EVarsOfDifferentContextsDiffer ==
    \A c, d \in Ctxts :
        c # d => \A i \in 1..Len(ret[c]) : \A j \in 1..Len(ret[d]) : ret[c][i] # ret[d][j]

\* The truth value of an expression under an assignment of truth values to
\* the variables and the local; a projection and a tuple are read as functions
\* of the value of their operand.
RECURSIVE Eval(_, _)
Eval(e, env) ==
    CASE e[1] = "FreeVar" -> env[e[2]]
      [] e[1] = "BoundVar" -> env["nu"]
      [] e[1] = "Local" -> env["local"]
      [] e[1] = "Constant" -> e[2] = "true"
      [] e[1] = "UnaryOp" -> ~Eval(e[3], env)
      [] e[1] = "BinaryOp" ->
            ( CASE e[2] = "And" -> Eval(e[3], env) /\ Eval(e[4], env)
                [] e[2] = "Eq" -> Eval(e[3], env) = Eval(e[4], env)
                [] e[2] = "Ne" -> Eval(e[3], env) # Eval(e[4], env) )
      [] e[1] = "Tuple" -> Eval(e[2][1], env) # env["flip"]
      [] e[1] = "PathProj" -> IF e[3] = 0 THEN Eval(e[2], env) ELSE Eval(e[2], env) # env["flip"]

\* The expression has the shape of the left side of a rule of simplify.
IsRedex(e) ==
    \/ /\ e[1] = "BinaryOp" /\ e[2] = "And"
       /\ \E a \in {e[3], e[4]} : a[1] = "Constant" /\ a[2] \in {"true", "false"}
    \/ /\ e[1] = "UnaryOp" /\ e[2] = "Not"
       /\ \/ e[3][1] = "Constant" /\ e[3][2] \in {"true", "false"}
          \/ e[3][1] = "UnaryOp" /\ e[3][2] = "Not"
          \/ e[3][1] = "BinaryOp" /\ e[3][2] = "Eq"

\* C25: simplify returns an expression with the truth value of its input
\* under every assignment, in which no sub-expression has the shape of the
\* left side of a rule, and which simplify returns unchanged; on an input
\* without such a sub-expression it returns the input.
C25_SimplifyRules ==
    op = "simplify" =>
        /\ \A env \in [{"x", "y", "nu", "local", "flip"} -> BOOLEAN] :
              Eval(res, env) = Eval(term, env)
        /\ \A i \in 1..Len(SubTerms(res)) : ~IsRedex(SubTerms(res)[i])
        /\ Simplify(res) = res
        /\ (\A i \in 1..Len(SubTerms(term)) : ~IsRedex(SubTerms(term)[i])) => res = term

\* simplify has rewritten a rule's left side that arose from a rewrite inside
\* it: a conjunction whose first operand is the negation of false.
C25_Witness ==
    /\ op = "simplify"
    /\ term = <<"BinaryOp", "And", <<"UnaryOp", "Not", <<"Constant", "false">> >>, X>>
    /\ res = X

\* ------------------------------------------------ claims on qualifiers
\* The free names of an expression of a qualifier.
RECURSIVE QNames(_)
QNames(e) ==
    CASE e[1] = "Free" -> {e[2]}
      [] e[1] = "BinaryOp" -> QNames(e[3]) \cup QNames(e[4])
      [] OTHER -> {}

\* The arguments, constraints and return type of a signature in the order
\* qualifiers_from_fn_sig processes them.
QOrigins(sig) == sig.args \o sig.requires \o sig.ensures \o <<sig.ret>>

\* C24: the parameter list of every qualifier returned is the list of the
\* parameters that occur in its expression, under their fresh names and in
\* the order of the parameters, followed by the fresh binder exactly when the
\* qualifier comes from an existential type; every free variable of the
\* expression is in the list, and one qualifier is returned for every
\* predicate constraint and every existential type with a predicate.
C24_RelevantParams ==
    qin.called =>
        LET n == Len(qin.params)
            src == { i \in 1..Len(QOrigins(qin.sig)) :
                        LET t == QOrigins(qin.sig)[i]
                            ty == IF t[1] = "Type" THEN t[2] ELSE t
                        IN  t[1] = "Pred" \/ (ty[1] = "Exists" /\ ty[3][1] = "Expr") }
            binders == { i \in src : QOrigins(qin.sig)[i][1] # "Pred" }
        IN  /\ Len(quals) = Cardinality(src)
            /\ Cardinality({ k \in 1..Len(quals) :
                    \E j \in 1..Len(quals[k].args) : quals[k].args[j][1] >= n })
                  = Cardinality(binders)
            /\ \A k \in 1..Len(quals) :
                  LET q == quals[k]
                      amb == { j \in 1..Len(q.args) : q.args[j][1] < n }
                  IN  /\ \A j \in amb : q.args[j] = <<q.args[j][1], qin.params[q.args[j][1] + 1][2]>>
                      /\ { q.args[j][1] : j \in amb } = QNames(q.expr) \cap (0..(n - 1))
                      /\ \A i, j \in amb : i < j => q.args[i][1] < q.args[j][1]
                      /\ Len(q.args) - Cardinality(amb) <= 1
                      /\ \A j \in 1..Len(q.args) : q.args[j][1] >= n => j = Len(q.args)
                      /\ QNames(q.expr) \subseteq { q.args[j][1] : j \in 1..Len(q.args) }

\* A call with two parameters of which a returned qualifier uses only the
\* second, besides its binder, and another uses none.
C24_Witness ==
    /\ qin.called /\ Len(qin.params) = 2
    /\ \E k \in 1..Len(quals) :
          /\ Len(quals[k].args) = 2 /\ quals[k].args[1][1] = 1 /\ quals[k].args[2][1] >= 2
    /\ \E k \in 1..Len(quals) : Len(quals[k].args) = 1 /\ quals[k].args[1][1] >= 2

\* ------------------------------------------------ claims on collect
\* The attributes of a list that are lr attributes but not the annotation
\* accepted at this place with arguments that parse.
InvalidAmong(attributes, accepted) ==
    { i \in 1..Len(attributes) :
        /\ attributes[i][1] # "inline"
        /\ attributes[i] \notin accepted }

\* C28: collect returns Ok only when every lr attribute met, on the function
\* and on the loop, was a valid annotation that parsed.
C28_OkOnlyIfAllValid ==
    coll.ret = "Ok" =>
        /\ InvalidAmong(coll.fn_attrs, { <<"lr::ty", "ok">>, <<"lr::assume", "empty">> }) = {}
        /\ InvalidAmong(coll.loop_attrs, { <<"lr::loop_invariant", "ok">> }) = {}

\* ------------------------------------------- claims on ProgramBuilder
\* The ids below the number of slots that no add_func call named.
NeverAdded == { id \in 0..(Len(pb.functions) - 1) : \A k \in 1..Len(pb.calls) : pb.calls[k].id # id }

\* C29: build returns Ok exactly when every id was added, and otherwise Err
\* with the smallest id never added; add_func returns true exactly when the
\* id had been added before; the built program holds for each id the
\* function added last.
C29_BuildAndAddFunc ==
    /\ \A k \in 1..Len(pb.calls) :
          pb.calls[k].ret = (\E j \in 1..(k - 1) : pb.calls[j].id = pb.calls[k].id)
    /\ pb.pc = "built" =>
          /\ pb.result[1] = "Ok" <=> NeverAdded = {}
          /\ pb.result[1] = "Err" =>
                /\ pb.result[2] \in NeverAdded
                /\ \A id \in NeverAdded : pb.result[2] <= id
          /\ pb.result[1] = "Ok" =>
                /\ Len(pb.result[2]) = Len(pb.functions)
                /\ \A k \in 1..Len(pb.calls) :
                      (\A j \in (k + 1)..Len(pb.calls) : pb.calls[j].id # pb.calls[k].id)
                          => pb.result[2][pb.calls[k].id + 1] = pb.calls[k].func

\* A program built after an id was added twice with different functions.
C29_Witness ==
    /\ pb.pc = "built" /\ pb.result[1] = "Ok" /\ Len(pb.functions) = 2
    /\ \E j, k \in 1..Len(pb.calls) :
          /\ j < k /\ pb.calls[j].id = pb.calls[k].id
          /\ pb.calls[j].func # pb.calls[k].func /\ pb.calls[k].ret

\* ------------------------------------------------- claims on the walk
\* The positions of the expression nodes of a predicate at position pos.
RECURSIVE NodesOf(_, _)
NodesOf(expr, pos) ==
    {pos} \cup
    CASE expr[1] = "Binary" -> NodesOf(expr[2], Append(pos, 1)) \cup NodesOf(expr[3], Append(pos, 2))
      [] expr[1] = "Unary" -> NodesOf(expr[2], Append(pos, 1))
      [] OTHER -> {}

\* How often a hook was invoked on a position.
Invoked(hook, pos) == Cardinality({ k \in 1..Len(walk.hooks) : walk.hooks[k] = <<hook, pos>> })

\* C30: the walk invokes visit_expression exactly once on every expression
\* node of the predicates of the inputs and of the output, the operands of
\* unary operators included, and visit_refine on every input and on the
\* output.
C30_HooksOnEveryNode ==
    walk.called =>
        LET refines == walk.inputs \o <<walk.output>>
        IN  \A i \in 1..Len(refines) :
               /\ Invoked("visit_refine", <<i>>) >= 1
               /\ \A pos \in NodesOf(refines[i], <<i>>) : Invoked("visit_expression", pos) = 1

====
